---------------------------- MODULE Spec2Model ----------------------------
(***************************************************************************)
(* Model of the numeric formatting core of rust-lexical:                   *)
(*   - src/src/float.rs: the extended-precision float (FloatType) and its  *)
(*     conversions to and from native floats;                              *)
(*   - src/lexical_write_integer/src/algorithm.rs: the radix-N integer     *)
(*     writer (write_digits, write_step_digits, algorithm, algorithm_u128).*)
(*                                                                         *)
(* TLC's integers are 32 bits wide, the program's are 64 and 128 bits      *)
(* wide.  An unsigned machine word is therefore modelled as the set of the *)
(* positions of its one bits: 5 is {0, 2}, 2^63 is {63}, 0 is {}.  Shifts, *)
(* masks, comparisons, sums and quotients are computed on that form, so a  *)
(* u64 keeps its 64 bits and a shift that pushes a bit past bit 63 loses   *)
(* it, as in the program.  Small quantities (exponents, indexes, digits,   *)
(* radixes) are ordinary integers.                                         *)
(***************************************************************************)
EXTENDS Integers, Sequences, FiniteSets, TLC

VARIABLES
    overflow_checks,  \* the build: TRUE when shifts are overflow-checked (debug)
    fp,               \* float.rs: the FloatType under operation {frac, exp}
    prev,             \* float.rs: fp before the last operation
    arg,              \* float.rs: the input the FloatType was built from
    ops,              \* float.rs: the operations applied so far, in order
    out,              \* float.rs: the native float produced by as_f32 / as_f64
    factor,           \* float.rs: `n` of mul_n / mul_n_unchecked
    addend,           \* float.rs: `b` of add
    lower,            \* float.rs: `lower` returned by normalized_boundaries
    upper,            \* float.rs: `upper` returned by normalized_boundaries
    cached,           \* float.rs: the running cached_power (exp, idx, power, k)
    call,             \* algorithm.rs: the call made (function, value, radix, step)
    buffer,           \* algorithm.rs: the caller's byte buffer
    index,            \* algorithm.rs: `index`, and at the end the index returned
    value,            \* algorithm.rs: `value` of the running write_digits
    pc,               \* algorithm.rs: "idle", "write_digits", "returned", "done"
    at,               \* algorithm.rs: the call site write_digits returns to
    start,            \* algorithm.rs: `start` of the running write_step_digits
    high,             \* algorithm.rs: `value` of algorithm_u128 (the quotient left)
    ftoa,             \* radix.rs: the running ftoa_naive (its locals and output)
    rounds            \* radix.rs: the loop rounds the running ftoa_naive has made

vars == <<overflow_checks, fp, prev, arg, ops, out,
          factor, addend, lower, upper, cached,
          call, buffer, index, value, pc, at, start, high, ftoa, rounds>>

arithVars == <<factor, addend, lower, upper>>
floatVars == <<fp, prev, arg, ops, out, arithVars>>
powerVars == <<cached>>
itoaVars == <<call, buffer, index, value, pc, at, start, high>>
ftoaVars == <<ftoa, rounds>>

---------------------------------------------------------------------------
(* Machine words as sets of bit positions.                                 *)

\* The word holding the small natural number n (n < 2^31).
Bits(n) == {i \in 0..30 : (n \div (2^i)) % 2 = 1}

RECURSIVE ToNat(_)
\* The small natural number a word holds (the word must be below 2^31).
ToNat(b) == IF b = {} THEN 0
            ELSE LET i == CHOOSE j \in b : TRUE IN 2^i + ToNat(b \ {i})

\* Position of the most significant one bit of a non-zero word.
Msb(b) == CHOOSE i \in b : \A j \in b : j <= i

\* The low w bits of a word: the wrap of an unsigned w-bit integer.
Trunc(b, w) == {i \in b : i < w}

\* b * 2^k, exactly.
ShlExact(b, k) == {i + k : i \in b}

\* b << k on a w-bit word: bits pushed past bit w-1 are lost.
Shl(b, k, w) == Trunc(ShlExact(b, k), w)

\* b >> k: floor(b / 2^k).
Shr(b, k) == {i - k : i \in {j \in b : j >= k}}

\* a < b as unsigned numbers.
Less(a, b) == /\ a # b
              /\ Msb((a \ b) \cup (b \ a)) \in b

\* What bit lo + i of a word adds to the w-bit limb that starts at bit lo.
BitAt(b, lo, w, i) == IF i < w /\ lo + i \in b THEN 2^i ELSE 0

\* The w-bit limb of a word that starts at bit lo, as a small number (w <= 15).
Limb(b, lo, w) ==
    BitAt(b, lo, w, 0) + BitAt(b, lo, w, 1) + BitAt(b, lo, w, 2)
    + BitAt(b, lo, w, 3) + BitAt(b, lo, w, 4) + BitAt(b, lo, w, 5)
    + BitAt(b, lo, w, 6) + BitAt(b, lo, w, 7) + BitAt(b, lo, w, 8)
    + BitAt(b, lo, w, 9) + BitAt(b, lo, w, 10) + BitAt(b, lo, w, 11)
    + BitAt(b, lo, w, 12) + BitAt(b, lo, w, 13) + BitAt(b, lo, w, 14)

\* The small number n placed at bit lo.
AtBit(n, lo) == ShlExact(Bits(n), lo)

\* The limbs of a word are added, multiplied and divided by halves of the
\* range of limbs, the carry of one half going into the other.  A result
\* is [w |-> the bits, c |-> the carry out].

\* Position of the least significant one bit of a non-zero word.
Lsb(b) == CHOOSE i \in b : \A j \in b : i <= j

Min(m, n) == IF m < n THEN m ELSE n
Max(m, n) == IF m > n THEN m ELSE n

\* The 15-bit limb lo holding the low bits of s, the rest carried out.
CarryLimb(s, lo) == [w |-> AtBit(s % 32768, 15 * lo), c |-> s \div 32768]

\* Two results in a row, the carry of the first one used by the second.
JoinLimbs(low, top) == [w |-> low.w \cup top.w, c |-> top.c]

\* The bits of a result, with its carry at limb hi + 1.
WithCarry(res, hi) == res.w \cup AtBit(res.c, 15 * (hi + 1))

RECURSIVE AddLimbs(_, _, _, _, _)
AddUpper(a, b, mid, hi, low) ==
    JoinLimbs(low, AddLimbs(a, b, mid + 1, hi, low.c))

\* Limbs lo..hi of a + b with carry c in, 15 bits a limb.
AddLimbs(a, b, lo, hi, c) ==
    IF lo = hi
    THEN CarryLimb(Limb(a, 15 * lo, 15) + Limb(b, 15 * lo, 15) + c, lo)
    ELSE AddUpper(a, b, (lo + hi) \div 2, hi,
                  AddLimbs(a, b, lo, (lo + hi) \div 2, c))

AddSpan(a, b, lo, hi) == WithCarry(AddLimbs(a, b, lo, hi, 0), hi)

\* a + b, exactly (no wrap).
Add(a, b) ==
    IF a = {} THEN b
    ELSE IF b = {} THEN a
    ELSE AddSpan(a, b, Min(Lsb(a), Lsb(b)) \div 15, Max(Msb(a), Msb(b)) \div 15)

\* The 15-bit limb lo holding d mod 2^15, with a borrow out for d < 0.
BorrowLimb(d, lo) ==
    [w |-> AtBit(d % 32768, 15 * lo), c |-> IF d < 0 THEN 1 ELSE 0]

RECURSIVE SubLimbs(_, _, _, _, _)
SubUpper(a, b, mid, hi, low) ==
    JoinLimbs(low, SubLimbs(a, b, mid + 1, hi, low.c))

\* Limbs lo..hi of a - b with borrow c in.
SubLimbs(a, b, lo, hi, c) ==
    IF lo = hi
    THEN BorrowLimb(Limb(a, 15 * lo, 15) - Limb(b, 15 * lo, 15) - c, lo)
    ELSE SubUpper(a, b, (lo + hi) \div 2, hi,
                  SubLimbs(a, b, lo, (lo + hi) \div 2, c))

\* a - b for a >= b.
Sub(a, b) == IF b = {} THEN a ELSE SubLimbs(a, b, 0, Msb(a) \div 15, 0).w

RECURSIVE MulSmallLimbs(_, _, _, _, _)
MulSmallUpper(a, n, mid, hi, low) ==
    JoinLimbs(low, MulSmallLimbs(a, n, mid + 1, hi, low.c))

\* Limbs lo..hi of a * n with carry c in, for a small factor n (n <= 2^15).
MulSmallLimbs(a, n, lo, hi, c) ==
    IF lo = hi
    THEN CarryLimb(Limb(a, 15 * lo, 15) * n + c, lo)
    ELSE MulSmallUpper(a, n, (lo + hi) \div 2, hi,
                       MulSmallLimbs(a, n, lo, (lo + hi) \div 2, c))

MulSmallSpan(a, n, lo, hi) == WithCarry(MulSmallLimbs(a, n, lo, hi, 0), hi)

\* a * n for a small factor n (n <= 2^15), exactly.
MulSmall(a, n) == IF a = {} \/ n = 0 THEN {}
                  ELSE MulSmallSpan(a, n, Lsb(a) \div 15, Msb(a) \div 15)

RECURSIVE MulLimbs(_, _, _, _)
\* Sum of a * (limb k of b) * 2^(15k) over the limbs lo..hi of b.
MulLimbs(a, b, lo, hi) ==
    IF lo = hi THEN ShlExact(MulSmall(a, Limb(b, 15 * lo, 15)), 15 * lo)
    ELSE Add(MulLimbs(a, b, lo, (lo + hi) \div 2),
             MulLimbs(a, b, (lo + hi) \div 2 + 1, hi))

\* a * b, exactly (no wrap).
Mul(a, b) == IF a = {} \/ b = {} THEN {}
             ELSE MulLimbs(a, b, Lsb(b) \div 15, Msb(b) \div 15)

\* The 8-bit limb lo of the quotient of t by d, and the remainder.
QuotientLimb(t, d, lo) == [q |-> AtBit(t \div d, 8 * lo), r |-> t % d]

JoinQuotient(top, low) == [q |-> top.q \cup low.q, r |-> low.r]

RECURSIVE DivRemLimbs(_, _, _, _, _)
DivRemLower(a, d, mid, lo, top) ==
    JoinQuotient(top, DivRemLimbs(a, d, mid, lo, top.r))

\* Long division by the small number d, 8 bits a limb, of the limbs hi down
\* to lo of a, r the remainder of the bits above.
DivRemLimbs(a, d, hi, lo, r) ==
    IF lo = hi
    THEN QuotientLimb(256 * r + Limb(a, 8 * lo, 8), d, lo)
    ELSE DivRemLower(a, d, (lo + hi) \div 2, lo,
                     DivRemLimbs(a, d, hi, (lo + hi) \div 2 + 1, r))

\* [q |-> a / d, r |-> a % d] for a small divisor d (0 < d < 2^22).
DivRem(a, d) == IF a = {} THEN [q |-> {}, r |-> 0]
                ELSE DivRemLimbs(a, d, Msb(a) \div 8, 0, 0)

\* The most digits of radix r (2 <= r <= 36) whose power stays below 2^15,
\* so that a multiplication by that power is one by a small number.
HornerDigits(r) == CHOOSE c \in 1..14 : r^c < 2^15 /\ r^(c + 1) >= 2^15

RECURSIVE PowWord(_, _)
\* r^n as a word (2 <= r <= 36), HornerDigits(r) factors at a time.
PowWord(r, n) ==
    IF n <= HornerDigits(r) THEN Bits(r^n)
    ELSE IF n <= 4 * HornerDigits(r)
    THEN MulSmall(PowWord(r, n - HornerDigits(r)), r^HornerDigits(r))
    ELSE Mul(PowWord(r, n - n \div 2), PowWord(r, n \div 2))

\* Number of leading zero bits of a 64-bit word.
Clz64(b) == IF b = {} THEN 64 ELSE 63 - Msb(b)

U64_MAX == 0..63

---------------------------------------------------------------------------
(* src/src/float.rs: constants of FloatType.                               *)

\* 0x0000000000800000, 0x00000000007FFFFF, 0x000000007F800000
F32_HIDDEN_BIT_MASK == {23}
F32_FRACTION_MASK == 0..22
F32_EXPONENT_MASK == 23..30
\* 0x0010000000000000, 0x000FFFFFFFFFFFFF, 0x7FF0000000000000
F64_HIDDEN_BIT_MASK == {52}
F64_FRACTION_MASK == 0..51
F64_EXPONENT_MASK == 52..62

U32_INFINITY == 23..30
F32_SIGNIFICAND_SIZE == 23
F32_EXPONENT_BIAS == 127 + F32_SIGNIFICAND_SIZE
F32_DENORMAL_EXPONENT == -F32_EXPONENT_BIAS + 1
F32_MAX_EXPONENT == 255 - F32_EXPONENT_BIAS

U64_INFINITY == 52..62
F64_SIGNIFICAND_SIZE == 52
F64_EXPONENT_BIAS == 1023 + F64_SIGNIFICAND_SIZE
F64_DENORMAL_EXPONENT == -F64_EXPONENT_BIAS + 1
F64_MAX_EXPONENT == 2047 - F64_EXPONENT_BIAS

\* MASKS of normalize_to_f32 / normalize_to_f64: entry idx holds the hidden
\* bit and the idx bits below it (0x00800000, 0x00C00000, ...).
F32_MASKS == [idx \in 0..23 |-> (23 - idx)..23]
F64_MASKS == [idx \in 0..52 |-> (52 - idx)..52]

---------------------------------------------------------------------------
(* src/src/float.rs: shifts.  A FloatType is [frac |-> u64, exp |-> i32].  *)

\* A shift of a u64 by n is an arithmetic overflow unless 0 <= n < 64: a
\* build with overflow checks panics, a build without shifts by n mod 64.
ShiftOverflows(n) == n < 0 \/ n >= 64
MaskedShift(n) == n % 64

\* shl! that lowers the exponent and leaves the fraction where it is.
shl_exp_only(self, shift) == [frac |-> self.frac, exp |-> self.exp - shift]

\* shl!: frac <<= shift; exp -= shift.
shl(self, shift) ==
    [frac |-> Shl(self.frac, MaskedShift(shift), 64), exp |-> self.exp - shift]

\* check_shl!, with a check that the top shift bits are not all zero dropped.
check_shl_unchecked(self, base, shift) == shl(self, shift)

\* check_shl!: shift left only when the top `shift` bits are zero.
check_shl(self, base, shift) ==
    IF Shr(self.frac, base - shift) = {} THEN shl(self, shift) ELSE self

\* shr!: frac >>= shift; exp += shift.
shr(self, shift) ==
    [frac |-> Shr(self.frac, MaskedShift(shift)), exp |-> self.exp + shift]

\* normalize, with the last step (the shift by one bit) missing.
normalize_short(self) ==
    check_shl(check_shl(check_shl(check_shl(check_shl(self,
        64, 32), 64, 16), 64, 8), 64, 4), 64, 2)

\* FloatType::normalize.
normalize(self) ==
    check_shl(check_shl(check_shl(check_shl(check_shl(check_shl(self,
        64, 32), 64, 16), 64, 8), 64, 4), 64, 2), 64, 1)

\* shift_to_float!, rounding every halfway case up (is_odd ignored).
shift_to_float_half_up(self, trunc_mask, trunc_mid, odd_mask, carry_mask, shift) ==
    LET truncated_bits == self.frac \cap trunc_mask
        is_roundup == ~Less(truncated_bits, trunc_mid)
        shifted == shr(self, shift)
        rounded == [shifted EXCEPT !.frac =
                       Trunc(Add(@, IF is_roundup THEN {0} ELSE {}), 64)]
    IN IF (rounded.frac \cap carry_mask) = carry_mask THEN shr(rounded, 1)
       ELSE rounded

\* shift_to_float!: round to nearest, ties to even, into the mantissa bits.
shift_to_float(self, trunc_mask, trunc_mid, odd_mask, carry_mask, shift) ==
    LET truncated_bits == self.frac \cap trunc_mask
        is_above == Less(trunc_mid, truncated_bits)
        is_halfway == truncated_bits = trunc_mid
        is_odd == (self.frac \cap odd_mask) = odd_mask
        is_roundup == is_above \/ (is_odd /\ is_halfway)
        shifted == shr(self, shift)
        rounded == [shifted EXCEPT !.frac =
                       Trunc(Add(@, IF is_roundup THEN {0} ELSE {}), 64)]
    IN IF (rounded.frac \cap carry_mask) = carry_mask THEN shr(rounded, 1)
       ELSE rounded

\* shift_to_f32!: TRUNC_MASK 0xFFFFFFFFFF, TRUNC_MID 0x8000000000,
\* ODD_MASK 0x10000000000, CARRY_MASK 0x1000000, SHIFT 40.
shift_to_f32(self) == shift_to_float(self, 0..39, {39}, {40}, {24}, 40)

\* shift_to_f64!: TRUNC_MASK 0x7FF, TRUNC_MID 0x400, ODD_MASK 0x800,
\* CARRY_MASK 0x20000000000000, SHIFT 11.
shift_to_f64(self) == shift_to_float(self, 0..10, {10}, {11}, {53}, 11)

\* The shift amount avoid_underflow! uses (0 when it does not shift).
avoid_underflow_diff(self, denormal) ==
    IF self.exp < denormal THEN denormal - self.exp ELSE 0

\* avoid_underflow!: shift right so that the exponent is the denormal one.
avoid_underflow(self, denormal) ==
    IF self.exp < denormal
    THEN LET diff == denormal - self.exp
         IN IF Shr(self.frac, MaskedShift(diff)) # {}
            THEN [frac |-> Shr(self.frac, MaskedShift(diff)), exp |-> self.exp + diff]
            ELSE self
    ELSE self

\* avoid_overflow!: shift left when no bit of the mask is set.
avoid_overflow(self, max, masks) ==
    IF self.exp >= max
    THEN LET diff == self.exp - max
             idx == diff
         IN IF idx < Cardinality(DOMAIN masks)
            THEN IF (self.frac \cap masks[idx]) = {}
                 THEN LET shift == diff + 1
                      IN [frac |-> Shl(self.frac, shift, 64), exp |-> self.exp - shift]
                 ELSE self
            ELSE self
    ELSE self

\* FloatType::normalize_to_f32 and normalize_to_f64.
normalize_to_f32(self) ==
    avoid_overflow(avoid_underflow(shift_to_f32(normalize(self)),
                                   F32_DENORMAL_EXPONENT),
                   F32_MAX_EXPONENT, F32_MASKS)
normalize_to_f64(self) ==
    avoid_overflow(avoid_underflow(shift_to_f64(normalize(self)),
                                   F64_DENORMAL_EXPONENT),
                   F64_MAX_EXPONENT, F64_MASKS)

\* Whether the conversion panics in a build with overflow checks: the only
\* shift by a computed amount on the way is the one of avoid_underflow!.
normalize_to_f32_panics(self) ==
    ShiftOverflows(avoid_underflow_diff(shift_to_f32(normalize(self)),
                                        F32_DENORMAL_EXPONENT))
normalize_to_f64_panics(self) ==
    ShiftOverflows(avoid_underflow_diff(shift_to_f64(normalize(self)),
                                        F64_DENORMAL_EXPONENT))

\* from_int!: FloatType { frac: i as u64, exp: 0 }.
from_int(i) == [frac |-> Trunc(i, 64), exp |-> 0]

\* from_float!, with the hidden bit of a normal float not restored.
from_float_no_hidden(bits, exponent, hidden, fraction, bias, sig_size) ==
    LET e == ToNat(Shr(bits \cap exponent, sig_size))
    IN IF e # 0 THEN [frac |-> bits \cap fraction, exp |-> e - bias]
       ELSE [frac |-> bits \cap fraction, exp |-> -bias + 1]

\* from_float!: split the bits of a native float into fraction and exponent.
from_float(bits, exponent, hidden, fraction, bias, sig_size) ==
    LET e == ToNat(Shr(bits \cap exponent, sig_size))
    IN IF e # 0 THEN [frac |-> Trunc(Add(bits \cap fraction, hidden), 64),
                      exp |-> e - bias]
       ELSE [frac |-> bits \cap fraction, exp |-> -bias + 1]

from_f32(f) == from_float(f, F32_EXPONENT_MASK, F32_HIDDEN_BIT_MASK,
                          F32_FRACTION_MASK, F32_EXPONENT_BIAS,
                          F32_SIGNIFICAND_SIZE)
from_f64(f) == from_float(f, F64_EXPONENT_MASK, F64_HIDDEN_BIT_MASK,
                          F64_FRACTION_MASK, F64_EXPONENT_BIAS,
                          F64_SIGNIFICAND_SIZE)

\* as_float!: the bits of the native float (intw is the width of $int).
as_float(self, intw, denormal, hidden, fraction, bias, max, inf, sig_size) ==
    IF self.frac = {} \/ self.exp < denormal THEN {}
    ELSE IF self.exp >= max THEN inf
    ELSE LET exp == IF self.exp = denormal /\ (self.frac \cap hidden) = {}
                    THEN 0
                    ELSE self.exp + bias
         IN Trunc(self.frac \cap fraction, intw) \cup Shl(Bits(exp), sig_size, intw)

\* The result of as_f32 / as_f64: the bits of the float, or a panic.
Returned(bits) == [panic |-> FALSE, bits |-> bits]
Panicked == [panic |-> TRUE, bits |-> {}]

\* FloatType::as_f32.
as_f32(self, checked) ==
    IF checked /\ normalize_to_f32_panics(self) THEN Panicked
    ELSE Returned(as_float(normalize_to_f32(self), 32, F32_DENORMAL_EXPONENT,
                           F32_HIDDEN_BIT_MASK, F32_FRACTION_MASK,
                           F32_EXPONENT_BIAS, F32_MAX_EXPONENT, U32_INFINITY,
                           F32_SIGNIFICAND_SIZE))

\* FloatType::as_f64.
as_f64(self, checked) ==
    IF checked /\ normalize_to_f64_panics(self) THEN Panicked
    ELSE Returned(as_float(normalize_to_f64(self), 64, F64_DENORMAL_EXPONENT,
                           F64_HIDDEN_BIT_MASK, F64_FRACTION_MASK,
                           F64_EXPONENT_BIAS, F64_MAX_EXPONENT, U64_INFINITY,
                           F64_SIGNIFICAND_SIZE))

---------------------------------------------------------------------------
(* IEEE-754 round to nearest, ties to even: what the conversions are held  *)
(* to.  Computed from the value frac * 2^exp, not from the program.        *)

\* round(f / 2^s), halfway cases to the even neighbour (f * 2^-s if s <= 0).
RoundShift(f, s) ==
    IF s <= 0 THEN ShlExact(f, -s)
    ELSE LET floor == Shr(f, s)
             rest == {i \in f : i < s}
             half == {s - 1}
             up == Less(half, rest) \/ (rest = half /\ 0 \in floor)
         IN IF up THEN Add(floor, {0}) ELSE floor

\* The bits of the float nearest to x.frac * 2^x.exp, for a format with
\* sig_size mantissa bits whose smallest subnormal is 2^min_exp and whose
\* infinity is inf.
NearestFloat(x, sig_size, min_exp, inf) ==
    IF x.frac = {} THEN {}
    ELSE LET e == x.exp + Msb(x.frac)        \* 2^e <= value < 2^(e+1)
             q == IF e - sig_size > min_exp THEN e - sig_size ELSE min_exp
             m == RoundShift(x.frac, q - x.exp)   \* value in units of 2^q
             \* m < 2^sig_size is subnormal (q = min_exp); a carry of m
             \* into the exponent field is the next power of two.
             raw == Add(m, ShlExact(Bits(q - min_exp), sig_size))
         IN IF Less(raw, inf) THEN raw ELSE inf

NearestF32(x) == NearestFloat(x, F32_SIGNIFICAND_SIZE, F32_DENORMAL_EXPONENT,
                              U32_INFINITY)
NearestF64(x) == NearestFloat(x, F64_SIGNIFICAND_SIZE, F64_DENORMAL_EXPONENT,
                              U64_INFINITY)

\* x and y represent the same number: frac * 2^exp is equal.
SameValue(x, y) ==
    IF x.exp >= y.exp THEN ShlExact(x.frac, x.exp - y.exp) = y.frac
    ELSE ShlExact(y.frac, y.exp - x.exp) = x.frac

---------------------------------------------------------------------------
(* The inputs the FloatType operations are run on.                         *)

\* Exponents are taken this far on each side of every boundary exponent.
ExpSlack == 1
\* normalize is applied at most this many times in a row.
MaxNormalize == 2

\* INTEGERS of the tests: 0x0, 0x1, 0x7, 0xF, 0x70 ... 0xFFFFFFF, then
\* 0xFFFFFFF0, 0xFFFFFFF7, 0xFFFFFFFF and 0xFFFFFFFFFFFFFFFF.
INTEGERS ==
    {Bits(n) : n \in {0, 1, 7, 15, 112, 119, 127, 240, 247, 255, 2032, 2039,
                      2047, 4080, 4087, 4095, 65520, 65527, 65535, 1048560,
                      1048567, 1048575, 16777200, 16777207, 16777215,
                      268435440, 268435447, 268435455}}
        \cup {4..31, {0, 1, 2} \cup 4..31, 0..31, 0..63}

\* Normalized fractions around a rounding position: bit `odd` is the last
\* bit kept, bit odd-1 the halfway bit, bit 0 a bit below it; the bits
\* above are all zero or all one (so that rounding up carries out).
RoundPatterns(odd) ==
    {{63} \cup top \cup low : top \in {{}, (odd + 1)..62},
                              low \in SUBSET {odd, odd - 1, 0}}

\* Fractions with every number of leading zeros: 2^k and 2^(k+1) - 1, and 0.
LzPatterns == {{k} : k \in 0..63} \cup {0..k : k \in 0..63} \cup {{}}

\* Exponents of a normalized fraction at which the conversions change
\* behaviour.  f64: -1149 first shift by 64 in avoid_underflow, -1137
\* smallest subnormal, -1111 a subnormal, -1085 smallest normal, 960
\* largest finite, 1014 end of MASKS.  f32: -253, -212, -200, -189, 64, 88.
\* -32767 and 32766 are the ends of the 16 bits that FloatType documents
\* for its exponent ("~80 bits of precision (~16 for exponent)").
ExpBases == {-32767, -1300, -1149, -1137, -1111, -1085, -253, -212, -200,
             -189, -63, 64, 88, 960, 1014, 2000, 32766}
BoundaryExps == {b + d : b \in ExpBases, d \in (-ExpSlack)..ExpSlack}

\* Normalized fractions 1.25, 1.5 and 1.75 * 2^63: at the exponent of the
\* smallest subnormal they lie between it and the next one.
QuarterPatterns == {{61, 63}, {62, 63}, {61, 62, 63}}

FloatInputs ==
    [frac : RoundPatterns(11) \cup RoundPatterns(40) \cup QuarterPatterns,
     exp : BoundaryExps]
        \cup [frac : LzPatterns, exp : {F64_DENORMAL_EXPONENT, 0, 971}]

\* Integers given to from_u64: the tests' and ones that need rounding.
IntInputs ==
    INTEGERS \cup {Shr(p, k) : p \in RoundPatterns(11), k \in {0, 10}}
             \cup {Shr(p, k) : p \in RoundPatterns(40), k \in {0, 39}}

\* Mantissa fields of n bits: 0, every single bit, every run of low ones.
Mantissas(n) == {{}} \cup {{k} : k \in 0..(n - 1)} \cup {0..k : k \in 0..(n - 1)}

\* Bits of finite non-negative floats: zero, subnormals (exponent field 0),
\* normals from the smallest to the largest exponent field.
F32Inputs == {m \cup AtBit(e, 23) : m \in Mantissas(23),
                                   e \in {0, 1, 2, 127, 253, 254}}
F64Inputs == {m \cup AtBit(e, 52) : m \in Mantissas(52),
                                   e \in {0, 1, 2, 1023, 2045, 2046}}

---------------------------------------------------------------------------
(* The FloatType operations as actions.                                    *)

Zero == [frac |-> {}, exp |-> 0]

FloatIdle ==
    /\ fp = Zero
    /\ prev = Zero
    /\ arg = [word |-> {}, exp |-> 0]
    /\ ops = <<>>
    /\ out = Returned({})
    /\ factor = 0
    /\ addend = Zero
    /\ lower = Zero
    /\ upper = Zero

ItoaIdle ==
    /\ call = [fn |-> "none", value |-> {}, radix |-> 0, divisor |-> {}, step |-> 0]
    /\ buffer = <<>>
    /\ index = 0
    /\ value = {}
    /\ pc = "idle"
    /\ at = "none"
    /\ start = 0
    /\ high = {}

\* FloatType { frac, exp }: a struct literal.
NewFloatType ==
    /\ ops = <<>>
    /\ \E x \in FloatInputs :
          /\ fp' = x
          /\ arg' = [word |-> x.frac, exp |-> x.exp]
    /\ prev' = fp
    /\ ops' = <<"FloatType">>
    /\ UNCHANGED <<out, overflow_checks, arithVars, itoaVars, ftoaVars, powerVars>>

\* FloatType::from_u64(i).
FromU64 ==
    /\ ops = <<>>
    /\ \E i \in IntInputs :
          /\ fp' = from_int(i)
          /\ arg' = [word |-> i, exp |-> 0]
    /\ prev' = fp
    /\ ops' = <<"from_u64">>
    /\ UNCHANGED <<out, overflow_checks, arithVars, itoaVars, ftoaVars, powerVars>>

\* FloatType::from_f32(f), f given by its bits.
FromF32 ==
    /\ ops = <<>>
    /\ \E f \in F32Inputs :
          /\ fp' = from_f32(f)
          /\ arg' = [word |-> f, exp |-> 0]
    /\ prev' = fp
    /\ ops' = <<"from_f32">>
    /\ UNCHANGED <<out, overflow_checks, arithVars, itoaVars, ftoaVars, powerVars>>

\* FloatType::from_f64(f), f given by its bits.
FromF64 ==
    /\ ops = <<>>
    /\ \E f \in F64Inputs :
          /\ fp' = from_f64(f)
          /\ arg' = [word |-> f, exp |-> 0]
    /\ prev' = fp
    /\ ops' = <<"from_f64">>
    /\ UNCHANGED <<out, overflow_checks, arithVars, itoaVars, ftoaVars, powerVars>>

\* x.normalize().
Normalize ==
    /\ ops # <<>>
    /\ ops[1] = "FloatType"
    /\ \A i \in 2..Len(ops) : ops[i] = "normalize"
    /\ Len(ops) <= MaxNormalize
    /\ fp' = normalize(fp)
    /\ prev' = fp
    /\ ops' = Append(ops, "normalize")
    /\ UNCHANGED <<arg, out, overflow_checks, arithVars, itoaVars, ftoaVars, powerVars>>

\* x.as_f32().
AsF32 ==
    /\ Len(ops) = 1
    /\ out' = as_f32(fp, overflow_checks)
    /\ ops' = Append(ops, "as_f32")
    /\ UNCHANGED <<fp, prev, arg, overflow_checks, arithVars, itoaVars, ftoaVars, powerVars>>

\* x.as_f64().
AsF64 ==
    /\ Len(ops) = 1
    /\ out' = as_f64(fp, overflow_checks)
    /\ ops' = Append(ops, "as_f64")
    /\ UNCHANGED <<fp, prev, arg, overflow_checks, arithVars, itoaVars, ftoaVars, powerVars>>

\* No cached_power call made yet.
PowerIdle ==
    cached = [pc |-> "idle", exp |-> 0, idx |-> 0, steps |-> 0, k |-> 0,
              power |-> [entry |-> 0, exp |-> 0]]

\* No ftoa_naive is running: the locals of radix.rs lines 66-78 unset.
FtoaIdle ==
    /\ ftoa = [pc |-> "idle", value |-> {}, radix |-> 0,
               integer |-> {}, fraction |-> {}, delta |-> {},
               buffer |-> <<>>, integer_cursor |-> 0, fraction_cursor |-> 0,
               rounded |-> "no", exponent |-> 0, bytes |-> <<>>,
               returned |-> [from |-> 0, len |-> 0]]
    /\ rounds = 0

InitFloat ==
    /\ overflow_checks \in BOOLEAN
    /\ FloatIdle
    /\ ItoaIdle
    /\ PowerIdle
    /\ FtoaIdle

NextFloat ==
    \/ NewFloatType
    \/ FromU64
    \/ FromF32
    \/ FromF64
    \/ Normalize
    \/ AsF32
    \/ AsF64

SpecFloat == InitFloat /\ [][NextFloat]_vars

---------------------------------------------------------------------------
(* Claims about FloatType, checked under SpecFloat.                        *)

\* The FloatType the operations started from.
Arg == [frac |-> arg.word, exp |-> arg.exp]

\* The last operation applied.
LastOp == IF ops = <<>> THEN "none" ELSE ops[Len(ops)]

\* C4: for every FloatType {frac, exp} with frac != 0, as_f64 and as_f32
\* return the native float nearest to frac * 2^exp under round-to-nearest,
\* ties-to-even, in every result range (normal, carried into the next
\* power of two, subnormal).
C4_AsFloatNearest ==
    /\ (ops = <<"FloatType", "as_f64">> /\ arg.word # {})
          => out = Returned(NearestF64(Arg))
    /\ (ops = <<"FloatType", "as_f32">> /\ arg.word # {})
          => out = Returned(NearestF32(Arg))

\* as_f64 has returned the smallest subnormal, 1 * 2^-1074, for the value
\* 1.75 * 2^-1074, whose nearest f64 is 2 * 2^-1074.
C4_Witness ==
    /\ ops = <<"FloatType", "as_f64">>
    /\ arg = [word |-> {61, 62, 63}, exp |-> -1137]
    /\ out = Returned({0})
    /\ NearestF64(Arg) = {1}

\* C5: for every unsigned 64-bit integer i, FloatType {frac: i, exp: 0}
\* converts with as_f64 / as_f32 to i as f64 / i as f32, the round-to-
\* nearest-even conversion of the integer (0, exact values, values that
\* round up or down, ties, and 2^64 - 1 that carries into 2^64).
C5_IntegerToFloat ==
    /\ ops = <<"from_u64", "as_f64">> => out = Returned(NearestF64(Arg))
    /\ ops = <<"from_u64", "as_f32">> => out = Returned(NearestF32(Arg))

\* C5 witness: 2^64 - 1 has been converted and rounded up into 2^64
\* (exponent field 1023 + 64 in f64, 127 + 64 in f32, mantissa 0).
C5_Witness ==
    /\ arg.word = U64_MAX
    /\ \/ ops = <<"from_u64", "as_f64">> /\ out = Returned(AtBit(1087, 52))
       \/ ops = <<"from_u64", "as_f32">> /\ out = Returned(AtBit(191, 23))

\* C6: as_f64 / as_f32 clamp: every input whose normalized exponent is
\* below the smallest subnormal's (<= -1138 for f64, <= -213 for f32),
\* however far below, gives exactly 0.0; every input whose value is at
\* least 2^1024 (f64) or 2^128 (f32), or reaches it by the rounding carry,
\* gives the bits of positive infinity.
C6_Clamp ==
    /\ (ops = <<"FloatType", "as_f64">> /\ normalize(Arg).exp <= -1138)
          => out = Returned({})
    /\ (ops = <<"FloatType", "as_f32">> /\ normalize(Arg).exp <= -213)
          => out = Returned({})
    /\ (ops = <<"FloatType", "as_f64">> /\ NearestF64(Arg) = U64_INFINITY)
          => out = Returned(U64_INFINITY)
    /\ (ops = <<"FloatType", "as_f32">> /\ NearestF32(Arg) = U32_INFINITY)
          => out = Returned(U32_INFINITY)

\* as_f64 has been given 2^-1086 (frac 2^63, exp -1149), for which
\* avoid_underflow shifts a u64 right by 64: the call has panicked where
\* overflow is checked, and returned 2^-1022 where the shift is masked.
C6_Witness ==
    /\ ops = <<"FloatType", "as_f64">>
    /\ arg = [word |-> {63}, exp |-> -1149]
    /\ \/ overflow_checks /\ out = Panicked
       \/ ~overflow_checks /\ out = Returned({52})

\* C7: from_f64(x).as_f64() == x for every finite non-negative f64 x (zero,
\* subnormal, normal), and from_f32(x).as_f32() == x for every such f32.
C7_RoundTrip ==
    /\ ops = <<"from_f64", "as_f64">> => out = Returned(arg.word)
    /\ ops = <<"from_f32", "as_f32">> => out = Returned(arg.word)

\* C7 witness: a subnormal f64 with several mantissa bits has gone through
\* from_f64 and as_f64 and come back.
C7_Witness ==
    /\ ops = <<"from_f64", "as_f64">>
    /\ arg.word = 0..20
    /\ out = Returned(0..20)

\* C8: after normalize of an input with frac != 0, bit 63 of frac is set
\* and the total left shift applied (the decrease of exp) is the number of
\* leading zero bits of the input fraction.
C8_NormalizeMsb ==
    (ops = <<"FloatType", "normalize">> /\ arg.word # {})
        => /\ 63 \in fp.frac
           /\ arg.exp - fp.exp = Clz64(arg.word)
           /\ fp.frac = ShlExact(arg.word, Clz64(arg.word))

\* C8 witness: the fraction 1 (63 leading zeros) has been normalized, all
\* six steps of normalize having shifted.
C8_Witness ==
    /\ ops = <<"FloatType", "normalize">>
    /\ arg.word = {0}
    /\ fp.frac = {63}
    /\ arg.exp - fp.exp = 63

\* C9: normalize is lossless: no set bit of frac is shifted out and the
\* number frac * 2^exp is the same before and after, for every {frac, exp}.
C9_NormalizeLossless ==
    LastOp = "normalize"
        => /\ SameValue(prev, fp)
           /\ Cardinality(fp.frac) = Cardinality(prev.frac)
           /\ fp.exp <= prev.exp

\* C9 witness: a fraction with 32 leading zeros and 32 set bits has been
\* normalized.
C9_Witness ==
    /\ ops = <<"FloatType", "normalize">>
    /\ arg.word = 0..31
    /\ fp.frac = 32..63

\* C10 as stated: for every x, normalize applied to normalize(x) gives the
\* same {frac, exp} pair as normalize(x).
C10_Idempotent_Stated ==
    (Len(ops) >= 3 /\ LastOp = "normalize") => fp = prev

\* C10 amended: for every x with frac != 0, normalize applied to
\* normalize(x) gives the same {frac, exp} pair as normalize(x).
C10_Idempotent ==
    (Len(ops) >= 3 /\ LastOp = "normalize" /\ arg.word # {}) => fp = prev

\* C10 witness: an unnormalized non-zero fraction has been normalized twice.
C10_Witness ==
    /\ ops = <<"FloatType", "normalize", "normalize">>
    /\ arg.word = {0}
    /\ fp = prev
    /\ fp.frac = {63}


---------------------------------------------------------------------------
(* src/lexical_write_integer/src/algorithm.rs: collaborators the file      *)
(* calls, modelled from the interface they present.                        *)

\* The character of a digit 0..35: '0'..'9', then 'A'..'Z'.
digit_to_char(digit) == IF digit < 10 THEN 48 + digit ELSE 55 + digit

\* The digit of a character, 99 for a character that is no digit.
char_to_digit(c) == IF c \in 48..57 THEN c - 48
                    ELSE IF c \in 65..90 THEN c - 55
                    ELSE 99

\* Byte i of the radix's digit-pair table: bytes 2n and 2n+1 hold the two
\* digits of n, most significant first, for every n < radix^2.
table(radix, i) == IF i % 2 = 0 THEN digit_to_char((i \div 2) \div radix)
                   ELSE digit_to_char((i \div 2) % radix)

\* The radixes of the formatter.
Radixes == 2..36

\* value <= u64::MAX
FitsU64(v) == v = {} \/ Msb(v) <= 63

\* The most digits of the radix whose power stays below 2^21, so that a
\* division by that power is a division by a small number.
ChunkDigits == [r \in Radixes |-> CHOOSE c \in 1..20 : r^c < 2^21 /\ r^(c + 1) >= 2^21]

RECURSIVE DivPow(_, _, _)
\* a / r^n, dividing by at most ChunkDigits[r] digits at a time.
DivPow(a, r, n) ==
    IF n = 0 THEN a
    ELSE LET c == IF n < ChunkDigits[r] THEN n ELSE ChunkDigits[r]
         IN DivPow(DivRem(a, r^c).q, r, n - c)

---------------------------------------------------------------------------
(* src/lexical_write_integer/src/algorithm.rs: write_digits,               *)
(* write_step_digits, algorithm, algorithm_u128.  `index` counts bytes     *)
(* from 0 as in the code; the byte at index i is buffer[i + 1].            *)

radix2(radix) == radix * radix
radix4(radix) == radix2(radix) * radix2(radix)

\* One round of the first loop with the digits swapped inside each pair.
write_digits_4_swapped(buf, idx, r, radix) ==
    LET r1 == 2 * (r \div radix2(radix))
        r2 == 2 * (r % radix2(radix))
    IN [buf EXCEPT ![idx] = table(radix, r2),
                   ![idx - 1] = table(radix, r2 + 1),
                   ![idx - 2] = table(radix, r1),
                   ![idx - 3] = table(radix, r1 + 1)]

\* One round of the first loop: the four digits of r = value % radix4,
\* written below idx from the least significant one.
write_digits_4(buf, idx, r, radix) ==
    LET r1 == 2 * (r \div radix2(radix))
        r2 == 2 * (r % radix2(radix))
    IN [buf EXCEPT ![idx] = table(radix, r2 + 1),
                   ![idx - 1] = table(radix, r2),
                   ![idx - 2] = table(radix, r1 + 1),
                   ![idx - 3] = table(radix, r1)]

\* One round of the second loop that starts one byte too high.
write_digits_2_above(buf, idx, r, radix) ==
    [buf EXCEPT ![idx + 1] = table(radix, r + 1),
                ![idx] = table(radix, r)]

\* One round of the second loop: the two digits at table index r.
write_digits_2(buf, idx, r, radix) ==
    [buf EXCEPT ![idx] = table(radix, r + 1),
                ![idx - 1] = table(radix, r)]

\* The last digits, always written as a pair.
write_digits_last_pair(buf, idx, v, radix) ==
    [buffer |-> [buf EXCEPT ![idx] = table(radix, 2 * v + 1),
                            ![idx - 1] = table(radix, 2 * v)],
     index |-> idx - 2]

\* The last one or two digits, v < radix2, and the index returned.
write_digits_last(buf, idx, v, radix) ==
    IF v < radix
    THEN [buffer |-> [buf EXCEPT ![idx] = digit_to_char(v)],
          index |-> idx - 1]
    ELSE LET r == 2 * v
         IN [buffer |-> [buf EXCEPT ![idx] = table(radix, r + 1),
                                    ![idx - 1] = table(radix, r)],
             index |-> idx - 2]

\* write_step_digits that returns where write_digits stopped, unpadded.
write_step_digits_unpadded(buf, from, idx, step) ==
    [buffer |-> buf, index |-> idx]

\* write_step_digits that pads to one character less than step.
write_step_digits_short(buf, from, idx, step) ==
    LET end == IF from >= step THEN from - step + 1 ELSE 0
    IN [buffer |-> [i \in DOMAIN buf |->
                        IF i - 1 >= end /\ i - 1 < idx THEN 48 ELSE buf[i]],
        index |-> end]

\* write_step_digits after its write_digits returned idx: the bytes from
\* end = from.saturating_sub(step) up to idx are set to '0'; returns end.
write_step_digits(buf, from, idx, step) ==
    LET end == IF from >= step THEN from - step ELSE 0
    IN [buffer |-> [i \in DOMAIN buf |->
                        IF i - 1 >= end /\ i - 1 < idx THEN 48 ELSE buf[i]],
        index |-> end]

---------------------------------------------------------------------------
(* Reference digits of a value, by division, and the formatter's inputs.   *)

RECURSIVE RefChunks(_, _)
\* The value cut into groups of ChunkDigits[r] digits, lowest group first,
\* each group a small number.
RefChunks(v, r) ==
    IF v = {} THEN <<>>
    ELSE LET d == DivRem(v, r^ChunkDigits[r])
         IN <<d.r>> \o RefChunks(d.q, r)

RECURSIVE SmallDigits(_, _)
\* Number of digits of the small number n in radix r.
SmallDigits(n, r) == IF n < r THEN 1 ELSE 1 + SmallDigits(n \div r, r)

\* Number of digits of v in radix r; zero has one digit.
NumDigits(v, r) ==
    LET ch == RefChunks(v, r)
    IN IF v = {} THEN 1
       ELSE (Len(ch) - 1) * ChunkDigits[r] + SmallDigits(ch[Len(ch)], r)

\* The digits of v in radix r, most significant first.
RefDigits(v, r) ==
    LET ch == RefChunks(v, r)
        n == NumDigits(v, r)
        c == ChunkDigits[r]
    IN [i \in 1..n |->
            IF v = {} THEN 0
            ELSE LET k == n - i
                 IN (ch[(k \div c) + 1] \div (r^(k % c))) % r]

\* A divisor of half the digits of u64::MAX.
u128_divisor_half(radix) ==
    LET step == NumDigits(U64_MAX, radix) \div 2
    IN [divisor |-> PowWord(radix, step), step |-> step]

\* Collaborators of algorithm_u128, modelled from their interface.
\* u128_divisor(radix): the largest power of the radix that fits 64 bits,
\* and its exponent `step`, the number of digits one division peels off:
\* one digit less than u64::MAX has.
u128_divisor(radix) ==
    LET step == NumDigits(U64_MAX, radix) - 1
    IN [divisor |-> PowWord(radix, step), step |-> step]

\* u128_divrem(value, divisor, ..): quotient, and remainder as a u64.
u128_divrem(v, divisor, step, radix) ==
    LET q == DivPow(v, radix, step)
    IN [q |-> q, r |-> Sub(v, Mul(q, divisor))]

RECURSIVE SmallParse(_, _, _, _)
\* The small number the digits ds[lo..hi] spell in radix r.
SmallParse(ds, r, lo, hi) ==
    IF lo > hi THEN 0 ELSE SmallParse(ds, r, lo, hi - 1) * r + ds[hi]

RECURSIVE ParseDigits(_, _, _)
\* The number the first n digits of ds spell in radix r, by Horner's rule
\* on groups of HornerDigits(r) digits.
ParseDigits(ds, r, n) ==
    IF n = 0 THEN {}
    ELSE LET c == IF n < HornerDigits(r) THEN n ELSE HornerDigits(r)
         IN Add(MulSmall(ParseDigits(ds, r, n - c), r^c),
                Bits(SmallParse(ds, r, n - c + 1, n)))

\* Digits 1, 2, 3, .. (mod r) from the top: n digits of every kind.
Counting(r, n) == ParseDigits([i \in 1..n |-> i % r], r, n)

\* The most digits a value of the width takes in radix r.
MaxDigits == [bits \in {32, 64, 128} |-> [r \in Radixes |-> NumDigits(0..(bits - 1), r)]]

\* Bytes the caller's buffer has beyond the most digits of the type.
ExtraLen == 1

Near(p) == {Sub(p, {0}), p, Add(p, {0})}

\* Digit counts tried against a type of at most n digits: the EdgeDigits
\* shortest and the EdgeDigits longest.
EdgeDigits == 3

DigitCounts(n) == {k \in 1..n : k <= EdgeDigits \/ k > n - EdgeDigits}

\* Values around every power of the radix, digits of every kind, and the
\* ends of the type's range.
AlgorithmInputs ==
    [bits \in {32, 64, 128} |-> [r \in Radixes |->
        {v \in {{}, 0..(bits - 1)}
                 \cup UNION {Near(PowWord(r, k)) : k \in DigitCounts(MaxDigits[bits][r])}
                 \cup {Counting(r, n) : n \in DigitCounts(MaxDigits[bits][r])} :
            v = {} \/ Msb(v) < bits}]]

\* Digit counts at which algorithm_u128 changes its number of chunks.
StepEdges(r) ==
    LET s == u128_divisor(r).step
    IN {k \in {1, s - 1, s, s + 1, 2 * s - 1, 2 * s, 2 * s + 1,
               MaxDigits[64][r], MaxDigits[128][r] - 1, MaxDigits[128][r]} :
            k >= 1}

AlgorithmU128Inputs ==
    [r \in Radixes |->
        {v \in {{}, 0..63, {64}, 0..127}
                 \cup UNION {Near(PowWord(r, k)) : k \in StepEdges(r)}
                 \cup {Counting(r, n) : n \in StepEdges(r)} :
            v = {} \/ Msb(v) < 128}]

---------------------------------------------------------------------------
(* The formatter's operations.  One action is one round of a loop of       *)
(* write_digits, or the code that runs between two calls of it.            *)

\* The buffer of a caller: the type's most digits, and maybe extra bytes,
\* every byte 0 (no digit of any radix) before the call.
NewBuffer(bits, radix, extra) ==
    [i \in 1..(MaxDigits[bits][radix] + extra) |-> 0]

\* algorithm(value, radix, table, buffer): write_digits from buffer.len().
Algorithm ==
    /\ pc = "idle"
    /\ \E bits \in {32, 64, 128}, radix \in Radixes, extra \in {0, ExtraLen} :
       \E v \in AlgorithmInputs[bits][radix] :
          /\ call' = [fn |-> "algorithm", value |-> v, radix |-> radix,
                      divisor |-> {}, step |-> 0]
          /\ buffer' = NewBuffer(bits, radix, extra)
          /\ index' = MaxDigits[bits][radix] + extra
          /\ value' = v
          /\ at' = "algorithm"
          /\ pc' = "write_digits"
    /\ UNCHANGED <<overflow_checks, floatVars, powerVars, ftoaVars, start, high>>

\* algorithm_u128(value, radix, table, buffer) up to its first write_digits:
\* a value of 64 bits goes to algorithm, another one is divided and its
\* low digits go to write_step_digits.
AlgorithmU128 ==
    /\ pc = "idle"
    /\ \E radix \in Radixes, extra \in {0, ExtraLen} :
       \E v \in AlgorithmU128Inputs[radix] :
          /\ call' = [fn |-> "algorithm_u128", value |-> v, radix |-> radix,
                      divisor |-> u128_divisor(radix).divisor,
                      step |-> u128_divisor(radix).step]
          /\ buffer' = NewBuffer(128, radix, extra)
          /\ index' = MaxDigits[128][radix] + extra
          /\ pc' = "write_digits"
          /\ IF FitsU64(v)
             THEN /\ value' = v
                  /\ at' = "algorithm"
                  /\ UNCHANGED <<start, high>>
             ELSE LET d == u128_divrem(v, call'.divisor, call'.step, radix)
                  IN /\ high' = d.q
                     /\ value' = d.r
                     /\ start' = MaxDigits[128][radix] + extra
                     /\ at' = "low"
    /\ UNCHANGED <<overflow_checks, floatVars, powerVars, ftoaVars>>

\* write_digits, a round of `while value >= radix4`.
WriteDigits4 ==
    /\ pc = "write_digits"
    /\ ~Less(value, Bits(radix4(call.radix)))
    /\ LET d == DivRem(value, radix4(call.radix))
       IN /\ value' = d.q
          /\ buffer' = write_digits_4(buffer, index, d.r, call.radix)
          /\ index' = index - 4
    /\ UNCHANGED <<overflow_checks, floatVars, powerVars, ftoaVars, call, pc, at, start, high>>

\* write_digits, a round of `while value >= radix2`.
WriteDigits2 ==
    /\ pc = "write_digits"
    /\ Less(value, Bits(radix4(call.radix)))
    /\ ~Less(value, Bits(radix2(call.radix)))
    /\ LET v == ToNat(value)
           r == 2 * (v % radix2(call.radix))
       IN /\ value' = Bits(v \div radix2(call.radix))
          /\ buffer' = write_digits_2(buffer, index, r, call.radix)
          /\ index' = index - 2
    /\ UNCHANGED <<overflow_checks, floatVars, powerVars, ftoaVars, call, pc, at, start, high>>

\* write_digits, the digits left after the loops, and its return.
WriteDigitsLast ==
    /\ pc = "write_digits"
    /\ Less(value, Bits(radix2(call.radix)))
    /\ LET w == write_digits_last(buffer, index, ToNat(value), call.radix)
       IN /\ buffer' = w.buffer
          /\ index' = w.index
    /\ pc' = "returned"
    /\ UNCHANGED <<overflow_checks, floatVars, powerVars, ftoaVars, call, value, at, start, high>>

\* The callers that return the index of write_digits: algorithm, and
\* algorithm_u128 for the digits above its chunks.
Return ==
    /\ pc = "returned"
    /\ at \in {"algorithm", "high"}
    /\ pc' = "done"
    /\ UNCHANGED <<overflow_checks, floatVars, powerVars, ftoaVars, call, buffer, index, value, at, start, high>>

\* algorithm_u128 after the low chunk: write_step_digits pads it; what is
\* left goes to write_digits if it fits 64 bits, and is divided again and
\* sent to write_step_digits if not.
ReturnLow ==
    /\ pc = "returned"
    /\ at = "low"
    /\ LET w == write_step_digits(buffer, start, index, call.step)
       IN /\ buffer' = w.buffer
          /\ index' = w.index
          /\ IF FitsU64(high)
             THEN /\ value' = high
                  /\ at' = "high"
                  /\ UNCHANGED <<start, high>>
             ELSE LET d == u128_divrem(high, call.divisor, call.step, call.radix)
                  IN /\ high' = d.q
                     /\ value' = d.r
                     /\ start' = w.index
                     /\ at' = "mid"
    /\ pc' = "write_digits"
    /\ UNCHANGED <<overflow_checks, floatVars, powerVars, ftoaVars, call>>

\* algorithm_u128 after the middle chunk: write_step_digits pads it, and
\* `if index != 0` the digits left go to write_digits.
ReturnMid ==
    /\ pc = "returned"
    /\ at = "mid"
    /\ LET w == write_step_digits(buffer, start, index, call.step)
       IN /\ buffer' = w.buffer
          /\ index' = w.index
          /\ IF w.index # 0
             THEN /\ value' = high
                  /\ at' = "high"
                  /\ pc' = "write_digits"
             ELSE /\ pc' = "done"
                  /\ UNCHANGED <<value, at>>
    /\ UNCHANGED <<overflow_checks, floatVars, powerVars, ftoaVars, call, start, high>>

InitItoa ==
    overflow_checks = FALSE /\ FloatIdle /\ ItoaIdle /\ PowerIdle /\ FtoaIdle

NextItoa ==
    \/ Algorithm
    \/ AlgorithmU128
    \/ WriteDigits4
    \/ WriteDigits2
    \/ WriteDigitsLast
    \/ Return
    \/ ReturnLow
    \/ ReturnMid

SpecItoa == InitItoa /\ [][NextItoa]_vars

---------------------------------------------------------------------------
(* Claims about the integer formatter.                                     *)

\* The bytes from the returned index to the end of the buffer.
Written == [i \in 1..(Len(buffer) - index) |-> buffer[index + i]]

\* The digits those bytes stand for.
WrittenDigits == [i \in 1..(Len(buffer) - index) |-> char_to_digit(buffer[index + i])]

\* C1: when algorithm(v, r, table, buffer) has returned index i, the bytes
\* buffer[i..len] are digits of radix r and, read most significant first,
\* they spell exactly v.
C1_RoundTrip ==
    (pc = "done" /\ call.fn = "algorithm") =>
        /\ index \in 0..(Len(buffer) - 1)
        /\ \A i \in DOMAIN WrittenDigits : WrittenDigits[i] < call.radix
        /\ ParseDigits(WrittenDigits, call.radix, Len(buffer) - index) = call.value

\* algorithm has returned for a 13-digit value of radix 36 whose digits
\* are all different.
C1_Witness ==
    /\ pc = "done"
    /\ call.fn = "algorithm"
    /\ call.radix = 36
    /\ call.value = Counting(36, 13)
    /\ WrittenDigits = <<1, 2, 3, 4, 5, 6, 7, 8, 9, 10, 11, 12, 13>>

\* C2: when algorithm_u128 has returned, the bytes from the returned index
\* on are exactly the characters of the digits that dividing v by r digit
\* after digit gives: the zeros inside and at the start of the low and the
\* middle chunk are there, and a value of 64 bits gives the digits that
\* algorithm gives.
C2_ReferenceDigits ==
    (pc = "done" /\ call.fn = "algorithm_u128") =>
        LET ref == RefDigits(call.value, call.radix)
        IN Written = [i \in DOMAIN ref |-> digit_to_char(ref[i])]

\* algorithm_u128 has returned for 10^38 + 1: three chunks, the middle one
\* all zeros and the low one zeros and a final 1.
C2_Witness ==
    /\ pc = "done"
    /\ call.fn = "algorithm_u128"
    /\ call.radix = 10
    /\ call.value = Add(PowWord(10, 38), {0})
    /\ at = "high"
    /\ Len(buffer) - index = 39
    /\ buffer[index + 1] = 49
    /\ buffer[Len(buffer)] = 49
    /\ \A i \in (index + 2)..(Len(buffer) - 1) : buffer[i] = 48

\* C3: the returned index is that of the most significant digit: for
\* v > 0 the byte there is not '0' and the bytes from there to the end of
\* the buffer are as many as v has digits; for v = 0 the one byte written
\* is a '0'.
C3_NoLeadingZero ==
    pc = "done" =>
        IF call.value = {}
        THEN /\ index = Len(buffer) - 1
             /\ buffer[Len(buffer)] = 48
             /\ \A i \in 1..index : buffer[i] = 0
        ELSE /\ buffer[index + 1] # 48
             /\ Len(buffer) - index = NumDigits(call.value, call.radix)

\* algorithm_u128 has returned for the value of its divisor, a 1 above a
\* low chunk of zeros.
C3_Witness ==
    /\ pc = "done"
    /\ call.fn = "algorithm_u128"
    /\ call.value = call.divisor
    /\ call.radix = 7
    /\ buffer[index + 1] = 49
    /\ Len(buffer) - index = call.step + 1

---------------------------------------------------------------------------
(* float.rs: the hard-coded multiplications mul_2 .. mul_36.              *)

\* multiply_pow2_impl!: only the exponent moves.
multiply_pow2(self, exp) == [frac |-> self.frac, exp |-> self.exp + exp]

\* const MAX: u64 = u64::max_value() / $factor + 1.
MulMax == [n \in 2..36 |-> Add(DivRem(U64_MAX, n).q, {0})]
MAX(n) == MulMax[n]

\* The fraction multiply_not_pow2_impl! multiplies: self.frac itself below
\* MAX, self.frac >> shift from MAX on.
multiply_not_pow2_operand(self, n, shift) ==
    IF Less(self.frac, MAX(n)) THEN self.frac ELSE shr(self, shift).frac

\* The product `$factor * $self.frac` / `x.frac *= $factor` as a number.
multiply_not_pow2_product(self, n, shift) ==
    MulSmall(multiply_not_pow2_operand(self, n, shift), n)

\* The u64 multiplication overflows: a panic with overflow checks, a
\* wrapped product without.
multiply_not_pow2_overflows(self, n, shift) ==
    ~(multiply_not_pow2_product(self, n, shift) \subseteq 0..63)

\* multiply_not_pow2_impl! that shifts right before every multiplication.
multiply_not_pow2_always_shift(self, n, shift) ==
    [frac |-> Trunc(MulSmall(shr(self, shift).frac, n), 64),
     exp |-> self.exp + shift]

\* multiply_not_pow2_impl!.
multiply_not_pow2(self, n, shift) ==
    [frac |-> Trunc(multiply_not_pow2_product(self, n, shift), 64),
     exp |-> IF Less(self.frac, MAX(n)) THEN self.exp
             ELSE shr(self, shift).exp]

\* The powers of two among 2..36, with the exponent their mul_N adds.
Pow2Factors == {2, 4, 8, 16, 32}
mul_exp(n) == CASE n = 2 -> 1 [] n = 4 -> 2 [] n = 8 -> 3
                [] n = 16 -> 4 [] n = 32 -> 5

\* A shift one short of the hard-coded one.
mul_shift_short(n) ==
    CASE n = 3 -> 1
      [] n \in 5..7 -> 2
      [] n \in 9..15 -> 3
      [] n \in 17..31 -> 4
      [] n \in 33..36 -> 5

\* The shift hard-coded for mul_N, N not a power of two.
mul_shift(n) ==
    CASE n = 3 -> 2
      [] n \in 5..7 -> 3
      [] n \in 9..15 -> 4
      [] n \in 17..31 -> 5
      [] n \in 33..36 -> 6

\* mul_n_unchecked: the match on n, each arm a mul_N_unchecked.
mul_n_unchecked(self, n) ==
    IF n \in Pow2Factors THEN multiply_pow2(self, mul_exp(n))
    ELSE multiply_not_pow2(self, n, mul_shift(n))

mul_n_unchecked_panics(self, n) ==
    /\ n \notin Pow2Factors
    /\ multiply_not_pow2_overflows(self, n, mul_shift(n))

\* The checked wrapper with `<=` for `<`.
mul_n_up_to_max(self, n) ==
    IF self.exp <= F64_MAX_EXPONENT THEN mul_n_unchecked(self, n) ELSE self

\* mul_n: the match on n, each arm a checked mul_N of multiply_n_impl!.
mul_n(self, n) ==
    IF self.exp < F64_MAX_EXPONENT THEN mul_n_unchecked(self, n) ELSE self

mul_n_panics(self, n) ==
    self.exp < F64_MAX_EXPONENT /\ mul_n_unchecked_panics(self, n)

\* The operands of multiply_test: from_u8(1), from_u64(10^19) and
\* from_f64(1.7976931348623157e308).
MultiplyTestX == from_int({0})
MultiplyTestY == from_int(PowWord(10, 19))
MultiplyTestZ == from_f64((0..51) \cup AtBit(2046, 52))

\* Receivers of mul_n for the factor n: the tests', fractions at MAX and at
\* the ends of the u64 range, with and without low bits that the shift
\* drops, at exponents around F64_MAX_EXPONENT and far from it.
MulFracs(n) ==
    {{}, {0}, {63}, {0, 63}, {6, 63}, U64_MAX,
     MAX(n), Sub(MAX(n), {0}), Add(MAX(n), {0}), ShlExact(Shr(MAX(n), 6), 6),
     Shl(MAX(n), 1, 64)}
MulExps == {-64, 0} \cup {F64_MAX_EXPONENT + d : d \in (-ExpSlack)..ExpSlack}
MulInputs(n) ==
    [frac : MulFracs(n), exp : MulExps]
        \cup {MultiplyTestX, MultiplyTestY, MultiplyTestZ}

\* x.mul_n(n).
MulN ==
    /\ ops = <<>>
    /\ \E n \in 2..36 : \E x \in MulInputs(n) :
          /\ prev' = x
          /\ arg' = [word |-> x.frac, exp |-> x.exp]
          /\ factor' = n
          /\ IF overflow_checks /\ mul_n_panics(x, n)
                THEN fp' = fp /\ out' = Panicked
                ELSE fp' = mul_n(x, n) /\ out' = out
    /\ ops' = <<"mul_n">>
    /\ UNCHANGED <<overflow_checks, addend, lower, upper, itoaVars, ftoaVars, powerVars>>

\* x.mul_n_unchecked(n).
MulNUnchecked ==
    /\ ops = <<>>
    /\ \E n \in 2..36 : \E x \in MulInputs(n) :
          /\ prev' = x
          /\ arg' = [word |-> x.frac, exp |-> x.exp]
          /\ factor' = n
          /\ IF overflow_checks /\ mul_n_unchecked_panics(x, n)
                THEN fp' = fp /\ out' = Panicked
                ELSE fp' = mul_n_unchecked(x, n) /\ out' = out
    /\ ops' = <<"mul_n_unchecked">>
    /\ UNCHANGED <<overflow_checks, addend, lower, upper, itoaVars, ftoaVars, powerVars>>

---------------------------------------------------------------------------
(* Claims about the multiplications.                                       *)

\* n * x as a FloatType with a fraction of any width.
Times(x, n) == [frac |-> MulSmall(x.frac, n), exp |-> x.exp]

\* The multiplication of x by n discards no set bit of x.frac.
NoBitDiscarded(x, n) ==
    \/ n \in Pow2Factors
    \/ Less(x.frac, MAX(n))
    \/ {i \in x.frac : i < mul_shift(n)} = {}

Multiplied == ops # <<>> /\ ops[1] \in {"mul_n", "mul_n_unchecked"}

\* C11 as stated: for every n in 2..36 and every x whose multiplication
\* discards no set bit, mul_n(x) represents exactly n times the value of x.
C11_MulExact_Stated ==
    (Multiplied /\ out # Panicked /\ NoBitDiscarded(prev, factor))
        => SameValue(fp, Times(prev, factor))

\* C11: for every n in 2..36 and every x whose multiplication discards no
\* set bit, mul_n_unchecked(x) represents exactly n times the value of x,
\* and so does mul_n(x) when x.exp < F64_MAX_EXPONENT (from there on mul_n
\* returns x as it is); from_u8(1).mul_n(n).as_f64() is n and
\* from_u64(10^19).mul_n(n).as_f64() is n * 1e19 for every n in 2..36.
C11_MulExact ==
    /\ (/\ Multiplied
        /\ out # Panicked
        /\ NoBitDiscarded(prev, factor)
        /\ ops[1] = "mul_n" => prev.exp < F64_MAX_EXPONENT)
            => SameValue(fp, Times(prev, factor))
    /\ (/\ Multiplied
        /\ LastOp = "as_f64"
        /\ prev \in {MultiplyTestX, MultiplyTestY})
            => out = Returned(NearestF64(Times(prev, factor)))

\* 10^19 multiplied by 36 through the shifted branch, then converted.
C11_Witness ==
    /\ ops = <<"mul_n", "as_f64">>
    /\ prev = MultiplyTestY
    /\ factor = 36
    /\ ~Less(prev.frac, MAX(factor))
    /\ fp.exp = 6

ListedShift(n) == CHOOSE s \in 1..6 : 2^(s - 1) < n /\ n <= 2^s

\* C13: for every n in 3..36 that is not a power of two and every 64-bit
\* fraction f, the product computed by mul_n_unchecked is at most 2^64 - 1:
\* it is n * f when f < MAX and n * (f >> shift_n) otherwise, with shift_n
\* the listed shift, for which n <= 2^shift_n.
C13_ProductFits ==
    (ops = <<"mul_n_unchecked">> /\ factor \notin Pow2Factors)
        => LET shift == mul_shift(factor)
               below == Less(prev.frac, MAX(factor))
               operand == IF below THEN prev.frac ELSE Shr(prev.frac, shift)
           IN /\ out # Panicked
              /\ shift = ListedShift(factor)
              /\ factor <= 2^shift
              /\ below <=> Less(MulSmall(prev.frac, factor), {64})
              /\ MulSmall(operand, factor) \subseteq 0..63
              /\ fp.frac = MulSmall(operand, factor)

\* 2^64 - 1 multiplied by 3 after the shift by 2.
C13_Witness ==
    /\ ops = <<"mul_n_unchecked">>
    /\ factor = 3
    /\ prev.frac = U64_MAX
    /\ fp = [frac |-> MulSmall(0..61, 3), exp |-> prev.exp + 2]

---------------------------------------------------------------------------
(* float.rs: add.                                                          *)

\* add_unchecked whose sum wraps around instead of shifting.
add_unchecked_wrapping(self, b) ==
    [frac |-> Trunc(Add(self.frac, b.frac), 64), exp |-> self.exp]

\* add_unchecked: overflowing_add, and on overflow both halves added.
add_unchecked(self, b) ==
    LET x == Trunc(Add(self.frac, b.frac), 64)
        y == ~(Add(self.frac, b.frac) \subseteq 0..63)
    IN IF y THEN [frac |-> Trunc(Add(Shr(self.frac, 1), Shr(b.frac, 1)), 64),
                  exp |-> self.exp + 1]
       ELSE [frac |-> x, exp |-> self.exp]

\* conditional_add!(x, y), x of the higher exponent.
conditional_add(x, y) ==
    LET diff == x.exp - y.exp
    IN IF diff < 64 THEN add_unchecked(shr(y, diff), x) ELSE x

\* add_less_equal: b.exp <= self.exp.
add_less_equal(self, b) ==
    IF self.exp = b.exp THEN add_unchecked(self, b)
    ELSE conditional_add(self, b)

\* add.
add(self, b) ==
    IF self.exp > b.exp THEN add_less_equal(self, b)
    ELSE add_less_equal(b, self)

\* Operands of add: fractions that do and do not carry out of 64 bits when
\* added, with low bits that the alignment shift drops, at exponents 0, 1,
\* 63, 64 and 65 apart and further.
AddFracs == {{}, {0}, {62}, {63}, {0, 63}, 0..62, 1..63, U64_MAX}
AddExps == {-1, 0} \cup {64 + d : d \in (-ExpSlack)..ExpSlack} \cup {200}
AddInputs == [frac : AddFracs, exp : AddExps]

\* a.add(&b).
AddFloats ==
    /\ ops = <<>>
    /\ \E a \in AddInputs, b \in AddInputs :
          /\ prev' = a
          /\ arg' = [word |-> a.frac, exp |-> a.exp]
          /\ addend' = b
          /\ fp' = add(a, b)
    /\ ops' = <<"add">>
    /\ UNCHANGED <<out, overflow_checks, factor, lower, upper, itoaVars, ftoaVars, powerVars>>

\* a <= b for words.
LessEq(a, b) == ~Less(b, a)

---------------------------------------------------------------------------
(* float.rs: normalized_boundaries.                                        *)

\* a - b on u64 without overflow checks: the difference mod 2^64.
WrappingSub(a, b) ==
    IF Less(a, b) THEN Sub(Add(a, {64}), b) ELSE Sub(a, b)

\* let l_shift: i32 = if self.frac == Self::F64_HIDDEN_BIT_MASK {2} else {1}.
l_shift(self) == IF self.frac = F64_HIDDEN_BIT_MASK THEN 2 ELSE 1

\* upper of normalized_boundaries, normalized.
boundaries_upper(self) ==
    normalize([frac |-> Trunc(Add(Shl(self.frac, 1, 64), {0}), 64),
               exp |-> self.exp - 1])

\* lower of normalized_boundaries before it is aligned with upper.
boundaries_lower(self) ==
    [frac |-> WrappingSub(Shl(self.frac, l_shift(self), 64), {0}),
     exp |-> self.exp - l_shift(self)]

\* normalized_boundaries: (lower, upper).
normalized_boundaries(self) ==
    LET up == boundaries_upper(self)
        lo == boundaries_lower(self)
    IN [lower |-> [frac |-> Shl(lo.frac, MaskedShift(lo.exp - up.exp), 64),
                   exp |-> up.exp],
        upper |-> up]

\* With overflow checks: `(self.frac << l_shift) - 1` underflows, or
\* `lower.frac <<= lower.exp - upper.exp` shifts by less than 0 or by 64
\* or more.
normalized_boundaries_panics(self) ==
    \/ Shl(self.frac, l_shift(self), 64) = {}
    \/ ShiftOverflows(boundaries_lower(self).exp - boundaries_upper(self).exp)

\* x.normalized_boundaries(), x = from_f64(v).
NormalizedBoundaries ==
    /\ ops = <<"from_f64">>
    /\ IF overflow_checks /\ normalized_boundaries_panics(fp)
          THEN out' = Panicked /\ UNCHANGED <<lower, upper>>
          ELSE /\ lower' = normalized_boundaries(fp).lower
               /\ upper' = normalized_boundaries(fp).upper
               /\ out' = out
    /\ ops' = Append(ops, "normalized_boundaries")
    /\ UNCHANGED <<fp, prev, arg, overflow_checks, factor, addend, itoaVars, ftoaVars, powerVars>>

\* a is the midpoint of x and y: 2a = x + y, in units of 2^a.exp.
Midpoint(a, x, y) ==
    /\ a.exp <= x.exp
    /\ a.exp <= y.exp
    /\ ShlExact(a.frac, 1) = Add(ShlExact(x.frac, x.exp - a.exp),
                                 ShlExact(y.frac, y.exp - a.exp))

\* C15: for every positive finite f64 v and x = from_f64(v),
\* normalized_boundaries(x) returns (lower, upper) with one common exponent,
\* upper the midpoint between v and the next larger f64, lower the midpoint
\* between v and the next smaller f64; the shift of 2 is used for lower
\* exactly when the next smaller float has a smaller exponent.
C15_Boundaries ==
    (/\ ops = <<"from_f64", "normalized_boundaries">>
     /\ arg.word # {}
     /\ Less(arg.word, U64_INFINITY))
        => LET larger == from_f64(Add(arg.word, {0}))
               smaller == from_f64(Sub(arg.word, {0}))
           IN /\ out # Panicked
              /\ lower.exp = upper.exp
              /\ Midpoint(upper, fp, larger)
              /\ Midpoint(lower, fp, smaller)
              /\ l_shift(fp) = 2 <=> smaller.exp < fp.exp

\* The boundaries of the smallest normal f64, 2^-1022: lower is a quarter
\* of a unit below it where the largest subnormal is a whole unit below.
C15_Witness ==
    /\ ops = <<"from_f64", "normalized_boundaries">>
    /\ arg.word = AtBit(1, 52)
    /\ fp = [frac |-> {52}, exp |-> -1074]
    /\ from_f64(Sub(arg.word, {0})) = [frac |-> 0..51, exp |-> -1074]
    /\ upper = [frac |-> {63, 10}, exp |-> -1085]
    /\ lower = [frac |-> Sub({63}, {9}), exp |-> -1085]
    /\ ~Midpoint(lower, fp, from_f64(Sub(arg.word, {0})))

---------------------------------------------------------------------------
(* float.rs: fast_multiply.                                                *)

\* const LOMASK: u64 = 0x00000000FFFFFFFF.
LOMASK == 0..31

\* The partial products, exactly: (self.frac >> 32) * (b.frac & LOMASK),
\* (self.frac & LOMASK) * (b.frac >> 32), and the low and the high one.
ah_bl(self, b) == Mul(Shr(self.frac, 32), b.frac \cap LOMASK)
al_bh(self, b) == Mul(self.frac \cap LOMASK, Shr(b.frac, 32))
al_bl(self, b) == Mul(self.frac \cap LOMASK, b.frac \cap LOMASK)
ah_bh(self, b) == Mul(Shr(self.frac, 32), Shr(b.frac, 32))

\* a + b of u64 without overflow checks.
WrappingAdd(a, b) == Trunc(Add(a, b), 64)

\* tmp before the rounding: (ah_bl & LOMASK) + (al_bh & LOMASK) + (al_bl >> 32).
fast_multiply_tmp(self, b) ==
    WrappingAdd(WrappingAdd(Trunc(ah_bl(self, b), 64) \cap LOMASK,
                            Trunc(al_bh(self, b), 64) \cap LOMASK),
                Shr(Trunc(al_bl(self, b), 64), 32))

\* ah_bh + (ah_bl >> 32) + (al_bh >> 32), before (tmp >> 32) is added.
fast_multiply_high(self, b) ==
    WrappingAdd(WrappingAdd(Trunc(ah_bh(self, b), 64),
                            Shr(Trunc(ah_bl(self, b), 64), 32)),
                Shr(Trunc(al_bh(self, b), 64), 32))

\* fast_multiply without `tmp += 1 << 31`.
fast_multiply_truncating(self, b) ==
    [frac |-> WrappingAdd(fast_multiply_high(self, b),
                          Shr(fast_multiply_tmp(self, b), 32)),
     exp |-> self.exp + b.exp + 64]

\* fast_multiply.
fast_multiply(self, b) ==
    [frac |-> WrappingAdd(fast_multiply_high(self, b),
                          Shr(WrappingAdd(fast_multiply_tmp(self, b), {31}), 32)),
     exp |-> self.exp + b.exp + 64]

\* Some product or sum of fast_multiply does not fit 64 bits: a panic with
\* overflow checks, a wrapped value without.
fast_multiply_wraps(self, b) ==
    LET hl == ah_bl(self, b)
        lh == al_bh(self, b)
        ll == al_bl(self, b)
        hh == ah_bh(self, b)
        mid == Add(hl \cap LOMASK, lh \cap LOMASK)
        tmp == Add(Add(mid, Shr(ll, 32)), {31})
        top == Add(Add(hh, Shr(hl, 32)), Shr(lh, 32))
    IN \E x \in {hl, lh, ll, hh, mid, tmp, top, Add(top, Shr(tmp, 32))} :
          ~(x \subseteq 0..63)

\* Operands of fast_multiply: fractions with all, none and some bits of
\* each half, whose partial products and sums are the largest and whose
\* product is just below, at and just above a rounding tie.
FastFracs == {{}, {0}, {63}, LOMASK, 32..63, U64_MAX, {0, 63}, {31, 63},
              31..32, 1..63, {i \in 0..63 : i % 2 = 0}}
FastExps == {-63, 11}
FastInputs == [frac : FastFracs, exp : FastExps]

\* a.fast_multiply(&b).
FastMultiply ==
    /\ ops = <<>>
    /\ \E a \in FastInputs, b \in FastInputs :
          /\ prev' = a
          /\ arg' = [word |-> a.frac, exp |-> a.exp]
          /\ addend' = b
          /\ IF overflow_checks /\ fast_multiply_wraps(a, b)
                THEN out' = Panicked /\ fp' = fp
                ELSE out' = out /\ fp' = fast_multiply(a, b)
    /\ ops' = <<"fast_multiply">>
    /\ UNCHANGED <<overflow_checks, factor, lower, upper, itoaVars, ftoaVars, powerVars>>

InitArith == InitFloat

NextArith ==
    \/ MulN
    \/ MulNUnchecked
    \/ AddFloats
    \/ FastMultiply
    \/ FromF64
    \/ NormalizedBoundaries
    \/ AsF64

SpecArith == InitArith /\ [][NextArith]_vars

---------------------------------------------------------------------------
(* float.rs: cached_power and the exponents of POWERS_OF_TEN.              *)

\* ONE_LOG_TEN = 0.30102999566398114 is the f64 0x1.34413509f79fep-2: its
\* 53-bit significand, in units of 2^-54.
ONE_LOG_TEN == Add(ShlExact(Bits(20201781), 28), Bits(10451454))
NPOWERS == 87
FIRSTPOWER == -348
STEPPOWERS == 8
EXPMAX == -32
EXPMIN == -60

\* The exp fields of POWERS_OF_TEN, entry idx at position idx + 1.
POWERS_OF_TEN ==
    <<-1220, -1193, -1166, -1140, -1113, -1087, -1060, -1034, -1007, -980,
      -954, -927, -901, -874, -847, -821, -794, -768, -741, -715, -688, -661,
      -635, -608, -582, -555, -529, -502, -475, -449, -422, -396, -369, -343,
      -316, -289, -263, -236, -210, -183, -157, -130, -103, -77, -50, -24, 3,
      30, 56, 83, 109, 136, 162, 189, 216, 242, 269, 295, 322, 348, 375, 402,
      428, 455, 481, 508, 534, 561, 588, 614, 641, 667, 694, 720, 747, 774,
      800, 827, 853, 880, 907, 933, 960, 986, 1013, 1039, 1066>>

\* a / b of i32: the quotient truncated towards zero.
TruncDiv(a, b) == IF a >= 0 THEN a \div b ELSE -((-a) \div b)

\* |n| * ONE_LOG_TEN as the f64 multiplication gives it: the exact product
\* rounded to 53 significant bits, in units of 2^-54.
MulLogTen(n) ==
    LET product == MulSmall(ONE_LOG_TEN, n)
        below == Msb(product) - F64_SIGNIFICAND_SIZE
    IN ShlExact(RoundShift(product, below), below)

\* approx with 1/4 for ONE_LOG_TEN.
cached_power_approx_quarter(exp) ==
    LET n == exp + NPOWERS
    IN IF n >= 0 THEN -(n \div 4) ELSE (-n) \div 4

\* let approx = -((exp + NPOWERS) as f64) * ONE_LOG_TEN; approx as i32:
\* the cast truncates towards zero.
cached_power_approx(exp) ==
    LET n == exp + NPOWERS
    IN IF n = 0 THEN 0
       ELSE IF n > 0 THEN -ToNat(Shr(MulLogTen(n), 54))
       ELSE ToNat(Shr(MulLogTen(-n), 54))

\* The initial index, four entries further up.
cached_power_idx_far(exp) ==
    TruncDiv(cached_power_approx(exp) - FIRSTPOWER, STEPPOWERS) + 4

\* ((approx - FIRSTPOWER) / STEPPOWERS) as usize.  A negative quotient is
\* kept negative here: the cast wraps it to 2^64 - |q|, far outside the
\* table either way.
cached_power_idx(exp) ==
    TruncDiv(cached_power_approx(exp) - FIRSTPOWER, STEPPOWERS)

\* current without the 64 bits of the fraction.
cached_power_current_short(exp, power) == exp + power.exp

\* let current = exp + power.exp + 64.
cached_power_current(exp, power) == exp + power.exp + 64

\* The indexes of POWERS_OF_TEN.
InTable(idx) == idx \in 0..(NPOWERS - 1)

\* POWERS_OF_TEN.get_unchecked(idx): the entry inside the table; outside
\* of it the read is undefined and may find any exponent, here one for
\* each way the loop can go on from it.
get_unchecked(idx, exp) ==
    IF InTable(idx)
    THEN {[entry |-> idx, exp |-> POWERS_OF_TEN[idx + 1]]}
    ELSE {[entry |-> idx, exp |-> c - 64 - exp] :
             c \in {EXPMIN - 1, EXPMIN, EXPMAX + 1}}

\* Exponents of a normalized FloatType built from a positive finite f64:
\* from the smallest subnormal (2^-1074, shifted up 63 bits) to the largest
\* normal value (exponent 971, shifted up 11 bits).
MinNormalizedExp == F64_DENORMAL_EXPONENT - 63
MaxNormalizedExp == F64_MAX_EXPONENT - 1 - 11

\* Exponents given to cached_power: every one from -1191 to 1096 and a few
\* around them (from -1190 to 1095 every index read lies in the table, the
\* exponents of a normalized f64 among them), and two far beyond.
PowerExps == ((-1191 - ExpSlack)..(1096 + ExpSlack)) \cup {-1300, 1200}

\* Rounds of the loop followed once the index has left the table.
MaxOutside == 3

\* cached_power(exp, k) up to the loop.
CachedPower ==
    /\ cached.pc = "idle"
    /\ \E exp \in PowerExps :
          cached' = [cached EXCEPT !.pc = "loop", !.exp = exp,
                                   !.idx = cached_power_idx(exp)]
    /\ UNCHANGED <<overflow_checks, floatVars, itoaVars, ftoaVars>>

\* The loop is followed from an index outside the table for MaxOutside
\* rounds at most.
Followed == InTable(cached.idx) \/ cached.steps < MaxOutside

\* A round of the loop that ends in `idx += 1; continue`.
CachedPowerUp ==
    /\ cached.pc = "loop"
    /\ Followed
    /\ \E power \in get_unchecked(cached.idx, cached.exp) :
          /\ cached_power_current(cached.exp, power) < EXPMIN
          /\ cached' = [cached EXCEPT !.power = power,
                                      !.idx = cached.idx + 1,
                                      !.steps = cached.steps + 1]
    /\ UNCHANGED <<overflow_checks, floatVars, itoaVars, ftoaVars>>

\* A round of the loop that ends in `idx -= 1; continue`; at idx = 0 the
\* subtraction panics with overflow checks and wraps without.
CachedPowerDown ==
    /\ cached.pc = "loop"
    /\ Followed
    /\ \E power \in get_unchecked(cached.idx, cached.exp) :
          /\ cached_power_current(cached.exp, power) >= EXPMIN
          /\ cached_power_current(cached.exp, power) > EXPMAX
          /\ IF overflow_checks /\ cached.idx = 0
                THEN cached' = [cached EXCEPT !.power = power,
                                              !.pc = "panicked"]
                ELSE cached' = [cached EXCEPT !.power = power,
                                              !.idx = cached.idx - 1,
                                              !.steps = cached.steps + 1]
    /\ UNCHANGED <<overflow_checks, floatVars, itoaVars, ftoaVars>>

\* The round of the loop that writes *k and returns power.
CachedPowerReturn ==
    /\ cached.pc = "loop"
    /\ Followed
    /\ \E power \in get_unchecked(cached.idx, cached.exp) :
          /\ cached_power_current(cached.exp, power) >= EXPMIN
          /\ cached_power_current(cached.exp, power) <= EXPMAX
          /\ cached' = [cached EXCEPT !.power = power,
                                      !.k = FIRSTPOWER + cached.idx * STEPPOWERS,
                                      !.pc = "returned"]
    /\ UNCHANGED <<overflow_checks, floatVars, itoaVars, ftoaVars>>

InitPower == InitFloat

NextPower ==
    \/ CachedPower
    \/ CachedPowerUp
    \/ CachedPowerDown
    \/ CachedPowerReturn

SpecPower == InitPower /\ [][NextPower]_vars

\* The loop is one thread of control: a round that can be taken is taken.
SpecPowerLive == SpecPower /\ WF_vars(CachedPowerUp \/ CachedPowerDown \/ CachedPowerReturn)

---------------------------------------------------------------------------
(* Claims about cached_power.                                              *)

\* cached_power has returned POWERS_OF_TEN[idx], an entry of the table
\* inside the window, and written -348 + 8 * idx through k.
ReturnedEntry ==
    /\ cached.idx \in 0..86
    /\ cached.power = [entry |-> cached.idx,
                       exp |-> POWERS_OF_TEN[cached.idx + 1]]
    /\ -60 <= cached.exp + cached.power.exp + 64
    /\ cached.exp + cached.power.exp + 64 <= -32
    /\ cached.k = -348 + 8 * cached.idx

NormalizedExp == cached.exp \in MinNormalizedExp..MaxNormalizedExp

\* C17: for every e with -1137 <= e <= 960 cached_power terminates: the
\* initial index and every index the loop visits are in 0..86, and the loop
\* reaches its return; adjacent table exponents differ by 26 or 27, less
\* than the width of the window.
C17_Terminates ==
    /\ MinNormalizedExp = -1137 /\ MaxNormalizedExp = 960
    /\ \A i \in 1..(NPOWERS - 1) :
          /\ POWERS_OF_TEN[i + 1] - POWERS_OF_TEN[i] \in {26, 27}
          /\ POWERS_OF_TEN[i + 1] - POWERS_OF_TEN[i] < EXPMAX - EXPMIN
    /\ []((NormalizedExp /\ cached.pc # "idle")
             => /\ cached.idx \in 0..86
                /\ cached.pc # "panicked"
                /\ cached.steps > 0 => cached.power.entry \in 0..86)
    /\ (NormalizedExp /\ cached.pc = "loop") ~> (cached.pc = "returned")

\* cached_power(-1137, k) has gone from index 83 to 84 and returned.
C17_Witness ==
    /\ cached.pc = "returned"
    /\ cached.exp = MinNormalizedExp
    /\ cached.steps = 1
    /\ cached.power.entry = 84

\* trunc(-(e + 87) * 0.30102999566398114), by comparing the product with
\* the two integers around it.
IsApprox(a, e) ==
    LET n == IF e + 87 >= 0 THEN e + 87 ELSE -(e + 87)
        t == IF a >= 0 THEN a ELSE -a
        product == MulSmall(ONE_LOG_TEN, n)
    IN /\ (a > 0 => e + 87 < 0) /\ (a < 0 => e + 87 > 0)
       /\ LessEq(ShlExact(Bits(t), 54), product)
       /\ Less(product, ShlExact(Bits(t + 1), 54))

\* C18: for every e with -1137 <= e <= 960 cached_power makes at most two
\* index corrections (idx += 1 or idx -= 1) between the initial estimate
\* idx = (trunc(-(e + 87) * 0.30102999566398114) + 348) / 8 and the return.
C18_TwoCorrections ==
    (NormalizedExp /\ cached.pc # "idle")
        => /\ cached.steps <= 2
           /\ (cached.pc = "loop" /\ cached.steps = 0)
                 => \E a \in {TruncDiv(-(cached.exp + 87) * 30103, 100000) + d :
                               d \in {-1, 0, 1}} :
                       /\ IsApprox(a, cached.exp)
                       /\ cached.idx = TruncDiv(a + 348, 8)

\* cached_power(960, k) has returned after two corrections.
C18_Witness ==
    /\ cached.pc = "returned"
    /\ cached.exp = 960
    /\ cached.steps = 2

---------------------------------------------------------------------------
(* radix.rs: the f64 arithmetic of ftoa_naive.  An f64 is its 64 bits; the *)
(* values here are finite and not negative, so the order of the values is  *)
(* the order of the bits.  Every operation is the exact result rounded to  *)
(* the nearest f64, ties to even.                                          *)

\* The 64 bits hi * 2^44 + mid * 2^22 + lo (mid, lo < 2^22).
F64Bits(hi, mid, lo) == AtBit(hi, 44) \cup AtBit(mid, 22) \cup Bits(lo)

\* The f64 of a small integer.
F64FromInt(n) == NearestF64([frac |-> Bits(n), exp |-> 0])

\* a * n, n a small integer (`fraction *= base`).
F64MulSmall(a, n) ==
    LET x == from_f64(a)
    IN NearestF64([frac |-> MulSmall(x.frac, n), exp |-> x.exp])

\* 0.5 * a.
F64Half(a) ==
    LET x == from_f64(a) IN NearestF64([frac |-> x.frac, exp |-> x.exp - 1])

\* a + b.
F64Add(a, b) ==
    LET x == from_f64(a)
        y == from_f64(b)
        lo == IF x.exp < y.exp THEN x.exp ELSE y.exp
    IN NearestF64([frac |-> Add(ShlExact(x.frac, x.exp - lo),
                                ShlExact(y.frac, y.exp - lo)),
                   exp |-> lo])

\* a - b, for a >= b.
F64Sub(a, b) ==
    LET x == from_f64(a)
        y == from_f64(b)
        lo == IF x.exp < y.exp THEN x.exp ELSE y.exp
    IN NearestF64([frac |-> Sub(ShlExact(x.frac, x.exp - lo),
                                ShlExact(y.frac, y.exp - lo)),
                   exp |-> lo])

\* a / n, n a small integer: the quotient with 64 more bits and a sticky
\* bit for the remainder, rounded.
F64DivSmall(a, n) ==
    LET x == from_f64(a)
        d == DivRem(ShlExact(x.frac, 64), n)
    IN NearestF64([frac |-> ShlExact(d.q, 1) \cup (IF d.r = 0 THEN {} ELSE {0}),
                   exp |-> x.exp - 65])

\* a.floor().
F64Floor(a) ==
    LET x == from_f64(a)
    IN IF x.exp >= 0 THEN a
       ELSE NearestF64([frac |-> Shr(x.frac, -x.exp), exp |-> 0])

\* `a as i32` / `a as usize` for a below 2^31: the integer part.
F64ToInt(a) ==
    LET x == from_f64(a)
    IN IF x.exp >= 0 THEN ToNat(ShlExact(x.frac, x.exp))
       ELSE ToNat(Shr(x.frac, -x.exp))

\* a % n for an f64 a that holds an integer, n a small integer.
F64RemSmall(a, n) ==
    LET x == from_f64(a)
    IN IF x.exp >= 0 THEN DivRem(ShlExact(x.frac, x.exp), n).r
       ELSE DivRem(Shr(x.frac, -x.exp), n).r

\* a.next_positive(): the next larger f64.
next_positive(a) == Add(a, {0})

\* a.max_finite(b).
max_finite(a, b) == IF Less(a, b) THEN b ELSE a

\* a.exponent(): the binary exponent of the f64 with its significand taken
\* as an integer.
exponent(a) == from_f64(a).exp

F64_HALF == AtBit(1022, 52)
F64_ONE == AtBit(1023, 52)

---------------------------------------------------------------------------
(* radix.rs: naive_exponent.  ln is not correctly rounded, so for a value  *)
(* next to a power of the radix the quotient of the two logarithms may     *)
(* fall on either side of the integer: both results are possible.          *)

\* log2(r) * 2^16 for r = 2..36, rounded: only to find which powers of r to
\* compare a value with.
Log2Q16 ==
    <<65536, 103872, 131072, 152170, 169408, 183983, 196608, 207744,
      217706, 226717, 234944, 242512, 249519, 256042, 262144, 267876,
      273280, 278392, 283242, 287855, 292253, 296456, 300480, 304340,
      308048, 311616, 315055, 318373, 321578, 324678, 327680, 330589,
      333412, 336153, 338816>>

\* -1, 0 or 1 as a < b, a = b or a > b.
Cmp(a, b) == IF a = b THEN 0 ELSE IF Less(a, b) THEN -1 ELSE 1

\* radix^j compared with x.frac * 2^x.exp (not zero), for p = radix^|j|.
CmpPow(p, j, x) ==
    IF j < 0 /\ x.exp >= 0 THEN -1
    ELSE Cmp(IF j < 0 THEN {-x.exp}
             ELSE IF x.exp >= 0 THEN p ELSE ShlExact(p, -x.exp),
             IF j < 0 THEN Mul(p, x.frac)
             ELSE IF x.exp >= 0 THEN ShlExact(x.frac, x.exp) ELSE x.frac)

\* x * (1 - 2^-52) and x * (1 + 2^-52).
Under(x) == [frac |-> Sub(ShlExact(x.frac, 52), x.frac), exp |-> x.exp - 52]
Above(x) == [frac |-> Add(ShlExact(x.frac, 52), x.frac), exp |-> x.exp - 52]

\* Where radix^j is: 0 below Under(x), 1 from there up to x, 2 above x up to
\* Above(x), 3 above that.
PowPlace(p, j, x) ==
    IF CmpPow(p, j, Under(x)) < 0 THEN 0
    ELSE IF CmpPow(p, j, x) <= 0 THEN 1
    ELSE IF CmpPow(p, j, Above(x)) <= 0 THEN 2
    ELSE 3

RECURSIVE PowNear(_, _, _)
\* base * radix^n for a small n.
PowNear(base, radix, n) ==
    IF n = 0 THEN base ELSE MulSmall(PowNear(base, radix, n - 1), radix)

\* radix^n as a word: the power of the odd part of the radix, shifted.
PowRadix(radix, n) ==
    LET t == CHOOSE k \in 0..5 : radix % 2^k = 0 /\ radix % 2^(k + 1) # 0
        odd == radix \div 2^t
    IN ShlExact(IF odd = 1 THEN {0} ELSE PowWord(odd, n), t * n)

\* j can be the result, for radix^j at place lo and radix^(j+1) at place hi:
\* j is floor(log_radix(x)), or one of the two powers is within x * 2^-52
\* of x, where the quotient of the logarithms may fall on either side.
CanResult(lo, hi) == (lo <= 1 /\ hi >= 2) \/ lo \in {1, 2} \/ hi \in {1, 2}

Abs(j) == IF j >= 0 THEN j ELSE -j

\* The results among the candidates from..(from + 5), base = radix^nmin.
ExponentsFrom(x, radix, from, nmin, base) ==
    {j \in from..(from + 5) :
        CanResult(PowPlace(PowNear(base, radix, Abs(j) - nmin), j, x),
                  PowPlace(PowNear(base, radix, Abs(j + 1) - nmin), j + 1, x))}

\* The smallest of |j| for j in from..(from + 6).
NearestZero(from) ==
    IF from >= 0 THEN from ELSE IF from + 6 <= 0 THEN -(from + 6) ELSE 0

\* The results (d.ln() / (radix as f64).ln()).floor() as i32 can have:
\* floor(log_radix(d)), and for d within d * 2^-52 of a power radix^j both
\* j - 1 and j.  ln(1.0) is 0 exactly.
naive_exponent(d, radix) ==
    LET x == from_f64(d)
        est == ((Msb(x.frac) + x.exp) * 65536) \div Log2Q16[radix - 1]
    IN IF d = F64_ONE THEN {0}
       ELSE ExponentsFrom(x, radix, est - 2, NearestZero(est - 2),
                          PowRadix(radix, NearestZero(est - 2)))

---------------------------------------------------------------------------
(* radix.rs: ftoa_naive, one action per loop round.  The local `buffer` is *)
(* the function from the positions written so far to their bytes.          *)

\* The crate's buffer size for a formatted float (radix.rs line 58 uses it).
BUFFER_SIZE == 256
MAX_NONDIGIT_LENGTH == 25
MAX_DIGIT_LENGTH == BUFFER_SIZE - MAX_NONDIGIT_LENGTH
SIZE == 2200
\* A start of the cursors 100 bytes below the middle.
initial_position_low == SIZE \div 2 - 100

\* let initial_position: usize = SIZE / 2.
initial_position == SIZE \div 2

\* The thresholds of line 143, as f64.
F64_1E_5 == F64Bits(257615, 2283043, 2320625)
F64_1E9 == F64Bits(269532, 3511296, 0)

\* The byte of a position never written: indeterminate.
UNINIT == -1

\* buffer[k] = c.
WriteByte(b, k, c) == [i \in DOMAIN b \cup {k} |-> IF i = k THEN c ELSE b[i]]

\* buffer[k].
ReadByte(b, k) == IF k \in DOMAIN b THEN b[k] ELSE UNINIT

\* exponent_notation_char(radix): 'e', or '^' where 'e' is a digit.
exponent_notation_char(radix) == IF radix >= 15 THEN 94 ELSE 101

\* The values formatted in every radix of FtoaRadixes: the examples, the
\* thresholds and their neighbours, and values whose digits round up.
FtoaValues ==
    {F64Bits(257359, 2283043, 2320625),    \* 0.000005
     F64Bits(269598, 429056, 0),           \* 1200000000
     F64Bits(263661, 3355443, 838861),     \* 123.45
     F64_ONE,                              \* 1.0
     F64Bits(262144, 0, 0),                \* 2.0
     F64_HALF,                             \* 0.5
     F64_1E_5,                             \* 1e-5
     next_positive(F64_1E_5),              \* 1.0000000000000003e-5
     F64_1E9,                              \* 1e9
     Sub(F64_1E9, {0}),                    \* 999999999.9999999
     F64Bits(261427, 838860, 3355443),     \* 0.3
     F64Bits(261887, 4194303, 4194303),    \* 0.9999999999999999
     F64Bits(261990, 1677721, 2516582),    \* 1.4
     F64Bits(262062, 335544, 1342177),     \* 1.68
     F64Bits(263934, 0, 0)}                \* 255

FtoaRadixes == {2, 5, 10, 16, 36}

\* The largest f64, 1.7976931348623157e308: 1024 digits in radix 2, 309 in
\* radix 10 and 199 in radix 36.  The smallest, 5e-324, and the next one,
\* 1e-323 = 2^-1073, which has 1073 fraction digits in radix 2.
F64_MAX == F64Bits(524031, 4194303, 4194303)
F64_MIN_POSITIVE == {0}
F64_1E_323 == {1}

FtoaInputs ==
    (FtoaValues \X FtoaRadixes)
        \cup {<<F64_MAX, 2>>, <<F64_MAX, 10>>, <<F64_MAX, 36>>}
        \cup {<<F64_MIN_POSITIVE, 2>>, <<F64_MIN_POSITIVE, 10>>}
        \cup {<<F64_1E_323, 2>>}

\* Lines 66-82: the split into integer and fraction, and delta.
FtoaNaive ==
    /\ ftoa.pc = "idle"
    /\ \E input \in FtoaInputs :
         LET v == input[1]
             radix == input[2]
             integer == F64Floor(v)
             fraction == F64Sub(v, integer)
             delta == max_finite(next_positive({}),
                                 F64Half(F64Sub(next_positive(v), v)))
         IN ftoa' = [ftoa EXCEPT
                !.pc = IF Less(delta, fraction) THEN "fraction" ELSE "fill",
                !.value = v, !.radix = radix,
                !.integer = integer, !.fraction = fraction, !.delta = delta,
                !.integer_cursor = initial_position,
                !.fraction_cursor = initial_position]
    /\ rounds' = 0
    /\ UNCHANGED <<overflow_checks, floatVars, powerVars, itoaVars>>

\* Line 94-95: the digit written is rounded up.
round_up(fraction, delta, digit) ==
    /\ \/ Less(F64_HALF, fraction)
       \/ fraction = F64_HALF /\ digit % 2 # 0
    /\ Less(F64_ONE, F64Add(fraction, delta))

\* Lines 85-95 and 118: one round of the fraction loop.
FractionDigit ==
    /\ ftoa.pc = "fraction"
    /\ LET shifted == F64MulSmall(ftoa.fraction, ftoa.radix)
           delta == F64MulSmall(ftoa.delta, ftoa.radix)
           digit == F64ToInt(shifted)
           fraction == F64Sub(shifted, F64FromInt(digit))
       IN ftoa' = [ftoa EXCEPT
              !.fraction = fraction, !.delta = delta,
              !.buffer = WriteByte(ftoa.buffer, ftoa.fraction_cursor,
                                   digit_to_char(digit)),
              !.fraction_cursor = ftoa.fraction_cursor + 1,
              !.pc = IF round_up(fraction, delta, digit) THEN "carry"
                     ELSE IF LessEq(fraction, delta) THEN "fill"
                     ELSE "fraction"]
    /\ rounds' = rounds + 1
    /\ UNCHANGED <<overflow_checks, floatVars, powerVars, itoaVars>>

\* Line 107: the digit read back can take the carry.
takes_carry(digit, radix) == digit <= radix

\* Lines 98-112: one round of the loop that traces back the digits written.
CarryOver ==
    /\ ftoa.pc = "carry"
    /\ LET fraction_cursor == ftoa.fraction_cursor - 1
           digit == char_to_digit(ReadByte(ftoa.buffer, fraction_cursor))
       IN ftoa' =
            IF fraction_cursor = initial_position - 1
            THEN [ftoa EXCEPT !.fraction_cursor = fraction_cursor,
                              !.integer = F64Add(ftoa.integer, F64_ONE),
                              !.rounded = "integer", !.pc = "fill"]
            ELSE IF takes_carry(digit, ftoa.radix)
            THEN [ftoa EXCEPT !.buffer = WriteByte(ftoa.buffer, fraction_cursor,
                                                   digit_to_char(digit + 1)),
                              !.fraction_cursor = fraction_cursor + 1,
                              !.rounded = "digit", !.pc = "fill"]
            ELSE [ftoa EXCEPT !.fraction_cursor = fraction_cursor]
    /\ rounds' = rounds + 1
    /\ UNCHANGED <<overflow_checks, floatVars, powerVars, itoaVars>>

\* Lines 125-129: one round of the loop that fills unrepresented digits.
IntegerFill ==
    /\ ftoa.pc = "fill"
    /\ exponent(F64DivSmall(ftoa.integer, ftoa.radix)) > 0
    /\ ftoa' = [ftoa EXCEPT
           !.integer = F64DivSmall(ftoa.integer, ftoa.radix),
           !.integer_cursor = ftoa.integer_cursor - 1,
           !.buffer = WriteByte(ftoa.buffer, ftoa.integer_cursor - 1, 48)]
    /\ rounds' = rounds + 1
    /\ UNCHANGED <<overflow_checks, floatVars, powerVars, itoaVars>>

\* Lines 131-141: one round of the loop that writes the integer digits.
IntegerDigit ==
    /\ \/ ftoa.pc = "digits"
       \/ /\ ftoa.pc = "fill"
          /\ exponent(F64DivSmall(ftoa.integer, ftoa.radix)) <= 0
    /\ LET remainder == F64RemSmall(ftoa.integer, ftoa.radix)
           integer == F64DivSmall(F64Sub(ftoa.integer, F64FromInt(remainder)),
                                  ftoa.radix)
       IN ftoa' = [ftoa EXCEPT
              !.integer = integer,
              !.integer_cursor = ftoa.integer_cursor - 1,
              !.buffer = WriteByte(ftoa.buffer, ftoa.integer_cursor - 1,
                                   digit_to_char(remainder)),
              !.pc = IF integer = {} THEN "notation" ELSE "digits"]
    /\ rounds' = rounds + 1
    /\ UNCHANGED <<overflow_checks, floatVars, powerVars, itoaVars>>

\* &buffer[from..to], as a sequence.
Slice(b, from, to) == [i \in 1..(to - from) |-> ReadByte(b, from + i - 1)]

\* rtrim_char_slice(slice, c).0: the slice without its trailing bytes c.
rtrim_char_slice(slice, c) ==
    LET kept == {i \in 1..Len(slice) : slice[i] # c}
    IN IF kept = {} THEN <<>>
       ELSE SubSeq(slice, 1, CHOOSE i \in kept : \A j \in kept : j <= i)

\* itoa::forward(exp, radix, ..): the digits of exp.
forward(exp, radix) ==
    [i \in 1..SmallDigits(exp, radix) |->
        digit_to_char((exp \div radix^(SmallDigits(exp, radix) - i)) % radix)]

\* Lines 154 and 157: `start` of the window of digits.
scientific_start(f, exp) ==
    IF LessEq(f.value, F64_1E_5) THEN initial_position - exp - 1
    ELSE f.integer_cursor

\* Lines 155 and 158: `end` of the window of digits.
scientific_end(f, exp) ==
    LET to == scientific_start(f, exp) + MAX_DIGIT_LENGTH + 1
    IN IF f.fraction_cursor < to THEN f.fraction_cursor ELSE to

\* Lines 160 and 166 panic: the range is not a range of the buffer, or
\* nothing is left of it to take the first digit from.
scientific_panics(f, exp) ==
    LET from == scientific_start(f, exp)
        to == scientific_end(f, exp)
    IN \/ from < 0
       \/ from > to
       \/ to > SIZE
       \/ rtrim_char_slice(Slice(f.buffer, from, to), 48) = <<>>

\* Lines 160-181: the bytes written in scientific notation.
scientific_bytes(f, exp) ==
    LET digits == rtrim_char_slice(Slice(f.buffer, scientific_start(f, exp),
                                         scientific_end(f, exp)), 48)
    IN <<digits[1], 46>> \o Tail(digits)
       \o <<exponent_notation_char(f.radix)>>
       \o (IF exp < 0 THEN <<45>> \o forward(-exp, f.radix)
           ELSE forward(exp, f.radix))

\* copy_to_dst(&mut bytes[dst..], src): the copy starts at bytes[dst]; the
\* slice returned starts at the index given here, after the bytes copied
\* (the byte written next, bytes[0] of that slice, follows the copy).
copy_to_dst(dst, src) == dst + Len(src)

\* The slice of the caller's buffer from index `from` to its end.
RestFrom(from) == [from |-> from, len |-> BUFFER_SIZE - from]

\* Lines 168-181: where the slice returned in scientific notation starts,
\* itoa::forward returning as copy_to_dst does.
scientific_returned(f, exp) ==
    LET digits == rtrim_char_slice(Slice(f.buffer, scientific_start(f, exp),
                                         scientific_end(f, exp)), 48)
        bytes == copy_to_dst(2, Tail(digits))
    IN IF exp < 0 THEN copy_to_dst(bytes + 2, forward(-exp, f.radix))
       ELSE copy_to_dst(bytes + 1, forward(exp, f.radix))

\* Line 143: the notation is scientific.
is_scientific(v) == LessEq(v, F64_1E_5) \/ LessEq(F64_1E9, v)

\* Lines 143-181: scientific notation, with any exponent that the quotient
\* of logarithms can give.
WriteScientific ==
    /\ ftoa.pc = "notation"
    /\ is_scientific(ftoa.value)
    /\ \E exp \in naive_exponent(ftoa.value, ftoa.radix) :
         ftoa' = IF scientific_panics(ftoa, exp)
                 THEN [ftoa EXCEPT !.pc = "panicked", !.exponent = exp]
                 ELSE [ftoa EXCEPT !.pc = "done", !.exponent = exp,
                                   !.bytes = scientific_bytes(ftoa, exp),
                                   !.returned =
                                       RestFrom(scientific_returned(ftoa, exp))]
    /\ UNCHANGED rounds
    /\ UNCHANGED <<overflow_checks, floatVars, powerVars, itoaVars>>

\* Lines 184-199: the bytes written in fixed-point notation.
fixed_bytes(f) ==
    LET integer_length == initial_position - f.integer_cursor
        written == f.fraction_cursor - initial_position
        room == MAX_DIGIT_LENGTH - integer_length
        fraction_length == IF written < room THEN written ELSE room
    IN Slice(f.buffer, f.integer_cursor, f.integer_cursor + integer_length)
       \o (IF fraction_length > 0
           THEN <<46>> \o Slice(f.buffer, initial_position,
                                initial_position + fraction_length)
           ELSE <<46, 48>>)

\* Lines 188-199: where the slice returned in fixed-point notation starts.
fixed_returned_written(f) == 0
fixed_returned(f) ==
    LET integer_length == initial_position - f.integer_cursor
        written == f.fraction_cursor - initial_position
        room == MAX_DIGIT_LENGTH - integer_length
        fraction_length == IF written < room THEN written ELSE room
        bytes == copy_to_dst(0, Slice(f.buffer, f.integer_cursor,
                                      f.integer_cursor + integer_length))
    IN IF fraction_length > 0
       THEN copy_to_dst(bytes + 1, Slice(f.buffer, initial_position,
                                         initial_position + fraction_length))
       ELSE copy_to_dst(bytes, <<46, 48>>)

\* Lines 182-200: fixed-point notation.
WriteFixed ==
    /\ ftoa.pc = "notation"
    /\ ~is_scientific(ftoa.value)
    /\ ftoa' = [ftoa EXCEPT !.pc = "done", !.bytes = fixed_bytes(ftoa),
                             !.returned = RestFrom(fixed_returned(ftoa))]
    /\ UNCHANGED rounds
    /\ UNCHANGED <<overflow_checks, floatVars, powerVars, itoaVars>>

\* No step of ftoa_naive depends on the build's overflow checks.
InitFtoa == InitItoa

NextFtoa ==
    \/ FtoaNaive
    \/ FractionDigit
    \/ CarryOver
    \/ IntegerFill
    \/ IntegerDigit
    \/ WriteScientific
    \/ WriteFixed

SpecFtoa == InitFtoa /\ [][NextFtoa]_vars

\* The call is inside one of the digit loops of lines 82-141.
InLoops == ftoa.pc \in {"fraction", "carry", "fill", "digits"}

\* ftoa_naive is sequential code: inside a loop the next round runs.  Every
\* round is counted in `rounds`, and every state inside a loop has a round
\* to run: the loop actions have no guard but the position in the code,
\* IntegerFill and IntegerDigit sharing the position "fill" by the test of
\* line 125 and its negation.
LoopRound == InLoops /\ rounds' = rounds + 1

SpecFtoaLive == SpecFtoa /\ WF_rounds(LoopRound)

---------------------------------------------------------------------------
(* Claims about ftoa_naive.                                                *)

\* A byte that is a digit character, 0-9 or A-Z.
IsDigitChar(c) == c \in 48..57 \/ c \in 65..90

\* b is first digit, '.', digits without trailing zeros, the exponent
\* character, '-' exactly when exp < 0, and at least one exponent digit.
ScientificForm(b, radix, exp) ==
    \E p \in 3..Len(b) :
        /\ b[p] = exponent_notation_char(radix)
        /\ IsDigitChar(b[1])
        /\ b[2] = 46
        /\ \A i \in 3..(p - 1) : IsDigitChar(b[i])
        /\ p > 3 => b[p - 1] # 48
        /\ LET from == IF exp < 0 THEN p + 2 ELSE p + 1
           IN /\ exp < 0 => p < Len(b) /\ b[p + 1] = 45
              /\ from <= Len(b)
              /\ \A i \in from..Len(b) : IsDigitChar(b[i])

\* b is integer digits, '.', and fraction digits.
FixedForm(b) ==
    \E p \in 2..(Len(b) - 1) :
        /\ b[p] = 46
        /\ \A i \in 1..Len(b) : i # p => IsDigitChar(b[i])

\* C19: every call of ftoa_naive on a finite positive value ends with an
\* output, in scientific form exactly when value <= 1e-5 or value >= 1e9 and
\* in fixed-point form otherwise; 123.45 in radix 10 ends in ".45".
C19_Layout ==
    /\ ftoa.pc # "panicked"
    /\ ftoa.pc = "done" =>
         /\ IF is_scientific(ftoa.value)
            THEN ScientificForm(ftoa.bytes, ftoa.radix, ftoa.exponent)
                 /\ ~FixedForm(ftoa.bytes)
            ELSE FixedForm(ftoa.bytes)
         /\ ftoa.value = F64Bits(263661, 3355443, 838861) /\ ftoa.radix = 10
                => SubSeq(ftoa.bytes, Len(ftoa.bytes) - 2, Len(ftoa.bytes))
                       = <<46, 52, 53>>

\* The smallest f64, 5e-324, is at most 1e-5 and the call panics: the
\* window of digits starts after its end.
C19_Witness ==
    /\ ftoa.pc = "panicked"
    /\ ftoa.value = F64_MIN_POSITIVE
    /\ ftoa.radix = 10
    /\ ftoa.exponent = -324
    /\ scientific_start(ftoa, ftoa.exponent) > scientific_end(ftoa, ftoa.exponent)

\* C20: no digit that ftoa_naive has written has a value of radix or more,
\* whatever the round-up did.
C20_Carry ==
    \A i \in DOMAIN ftoa.buffer :
        char_to_digit(ftoa.buffer[i]) < ftoa.radix

\* 1.4 in radix 5: the second fraction digit, 4, is rounded up in place to
\* 5 and "1.15" is written.
C20_Witness ==
    /\ ftoa.pc = "done"
    /\ ftoa.value = F64Bits(261990, 1677721, 2516582)
    /\ ftoa.radix = 5
    /\ ftoa.rounded = "digit"
    /\ ftoa.bytes = <<49, 46, 49, 53>>

---------------------------------------------------------------------------
(* A correctly rounded parser, as a relation: the number a written string  *)
(* spells, compared exactly with the midpoints around an f64.              *)

\* The digits of the bytes from..to of b.
DigitsOf(b, from, to) == [i \in 1..(to - from + 1) |-> char_to_digit(b[from + i - 1])]

\* The number the bytes spell, digits * radix^exp: the digits around the
\* '.', and the exponent written after the exponent character, if any.
Spelled(b, radix) ==
    LET dot == CHOOSE i \in 1..Len(b) : b[i] = 46
        marks == {i \in 1..Len(b) : b[i] = exponent_notation_char(radix)}
        mark == IF marks = {} THEN Len(b) + 1 ELSE CHOOSE i \in marks : TRUE
        negative == mark < Len(b) /\ b[mark + 1] = 45
        from == IF negative THEN mark + 2 ELSE mark + 1
        written == ToNat(ParseDigits(DigitsOf(b, from, Len(b)), radix,
                                     Len(b) - from + 1))
        mantissa == DigitsOf(b, 1, dot - 1) \o DigitsOf(b, dot + 1, mark - 1)
    IN [digits |-> ParseDigits(mantissa, radix, Len(mantissa)),
        exp |-> (IF marks = {} THEN 0 ELSE IF negative THEN -written ELSE written)
                    - (mark - 1 - dot)]

\* n.digits * radix^n.exp compared with frac * 2^exp: -1, 0 or 1.
CmpSpelled(n, radix, frac, exp) ==
    Cmp(ShlExact(Mul(IF n.exp >= 0 THEN PowRadix(radix, n.exp) ELSE {0},
                     n.digits),
                 IF exp < 0 THEN -exp ELSE 0),
        ShlExact(Mul(IF n.exp < 0 THEN PowRadix(radix, -n.exp) ELSE {0},
                     frac),
                 IF exp >= 0 THEN exp ELSE 0))

\* The f64 v (finite, positive) is the nearest f64 to the number n, ties to
\* the even significand: n lies between the midpoints to v's neighbours, in
\* units of a quarter of v's last place.  Below a power of two the
\* neighbour is half as far.
ParsesTo(n, radix, v) ==
    LET x == from_f64(v)
        quarter == ShlExact(x.frac, 2)
        narrow == x.frac = F64_HIDDEN_BIT_MASK /\ x.exp > F64_DENORMAL_EXPONENT
        below == CmpSpelled(n, radix, Sub(quarter, IF narrow THEN {0} ELSE {1}),
                          x.exp - 2)
        above == CmpSpelled(n, radix, Add(quarter, {1}), x.exp - 2)
        even == 0 \notin v
    IN /\ below > 0 \/ (below = 0 /\ even)
       /\ above < 0 \/ (above = 0 /\ even)

\* The values of the round trip: 1.0, 2.0, 1e-5, 1e9, the largest and the
\* smallest f64.
RoundTripValues ==
    {F64_ONE, F64Bits(262144, 0, 0), F64_1E_5, F64_1E9, F64_MAX,
     F64_MIN_POSITIVE}

\* C22: in radix 10 each of the six values is written, and a correctly
\* rounded parser reads the string written back as the value.
C22_RoundTrip ==
    ftoa.radix = 10 /\ ftoa.value \in RoundTripValues =>
        /\ ftoa.pc # "panicked"
        /\ ftoa.pc = "done" => ParsesTo(Spelled(ftoa.bytes, 10), 10, ftoa.value)

\* The largest f64 is written "1.7976931348623168e308", which is at or above
\* the midpoint between the largest f64 and 2^1024: it parses as infinity.
C22_Witness ==
    /\ ftoa.pc = "done"
    /\ ftoa.radix = 10
    /\ ftoa.value = F64_MAX
    /\ ftoa.bytes = <<49, 46, 55, 57, 55, 54, 57, 51, 49, 51, 52, 56, 54, 50,
                      51, 49, 54, 56, 101, 51, 48, 56>>
    /\ CmpSpelled(Spelled(ftoa.bytes, 10), 10, 0..53, 970) > 0

---------------------------------------------------------------------------
(* Claims about the table reads and the writes of write_digits.            *)

\* The pair indexes with `value % radix2` left out of the second loop.
pair_indexes_unreduced(v, radix) ==
    IF ~Less(v, Bits(radix4(radix)))
    THEN LET r == DivRem(v, radix4(radix)).r
         IN {2 * (r \div radix2(radix)), 2 * (r % radix2(radix))}
    ELSE IF ~Less(v, Bits(radix2(radix)))
    THEN {2 * ToNat(v)}
    ELSE IF ToNat(v) < radix THEN {} ELSE {2 * ToNat(v)}

\* The numbers r1, r2 or r that the round of write_digits entered with
\* value v computes; the round reads the table at each of them and at the
\* byte after it.  The single-digit branch reads no table byte.
pair_indexes(v, radix) ==
    IF ~Less(v, Bits(radix4(radix)))
    THEN LET r == DivRem(v, radix4(radix)).r
         IN {2 * (r \div radix2(radix)), 2 * (r % radix2(radix))}
    ELSE IF ~Less(v, Bits(radix2(radix)))
    THEN {2 * (ToNat(v) % radix2(radix))}
    ELSE IF ToNat(v) < radix THEN {} ELSE {2 * ToNat(v)}

\* The bytes of the table: 2 * radix^2 of them, indexes from 0.
table_len(radix) == 2 * radix2(radix)

\* C23: in every round of write_digits, r1, r2 and r are even numbers of
\* 0 .. 2*radix^2 - 2, so the reads at r and r + 1 are inside the table,
\* and after the loops no pair is read exactly when value < radix.
C23_TableIndexes ==
    pc = "write_digits" =>
        /\ call.radix \in Radixes
        /\ \A r \in pair_indexes(value, call.radix) :
              /\ r % 2 = 0
              /\ r \in 0..(table_len(call.radix) - 2)
              /\ {r, r + 1} \subseteq 0..(table_len(call.radix) - 1)
        /\ Less(value, Bits(radix2(call.radix))) =>
              ((pair_indexes(value, call.radix) = {}) <=> Less(value, Bits(call.radix)))

\* A round of the first loop in radix 36 reads the last pair of the table
\* for both halves of its remainder.
C23_Witness ==
    /\ pc = "write_digits"
    /\ call.radix = 36
    /\ ~Less(value, Bits(radix4(36)))
    /\ pair_indexes(value, 36) = {table_len(36) - 2}

\* A round of write_digits leaves every byte outside [index', index) as it
\* was and puts a digit of the radix at every byte inside.
RoundFrame ==
    /\ index' \in 0..index
    /\ Len(buffer') = Len(buffer)
    /\ \A i \in 0..(Len(buffer) - 1) :
          IF i >= index' /\ i < index
          THEN char_to_digit(buffer'[i + 1]) < call.radix
          ELSE buffer'[i + 1] = buffer[i + 1]

\* C24: write_digits and algorithm write only inside the region they
\* report: the index never goes below 0, every round writes exactly the
\* bytes between the index it leaves and the index it found, so a call
\* entered at s writes exactly [returned index, s); the bytes below the
\* index are the caller's (0 in a new buffer) at every point of the call.
C24_Frame ==
    /\ [](pc \in {"write_digits", "returned"} =>
            /\ index \in 0..Len(buffer)
            /\ \A i \in 1..index : buffer[i] = 0)
    /\ [][pc = "write_digits" => RoundFrame]_vars

\* algorithm has returned index 1 for u64::MAX in radix 10 and a buffer of
\* 21 bytes: 20 digits written, the byte at 0 as the caller left it.
C24_Witness ==
    /\ pc = "done"
    /\ call.fn = "algorithm"
    /\ call.radix = 10
    /\ call.value = U64_MAX
    /\ Len(buffer) = 21
    /\ index = 1
    /\ buffer[1] = 0
    /\ \A i \in 2..21 : char_to_digit(buffer[i]) < 10

\* The value algorithm_u128 hands to the write_step_digits that is about
\* to pad: the remainder of its first division for the low chunk, of its
\* second division for the middle chunk.
step_value ==
    LET low == u128_divrem(call.value, call.divisor, call.step, call.radix)
    IN IF at = "low" THEN low.r
       ELSE u128_divrem(low.q, call.divisor, call.step, call.radix).r

\* The padding step of write_step_digits entered at index `start`: it
\* returns start - step, sets the bytes from there up to the index that
\* write_digits returned to '0', a number of bytes that is not negative,
\* keeps the digits write_digits wrote, and the step characters spell the
\* value.
StepWritten ==
    LET end == start - call.step
    IN /\ start >= call.step
       /\ Less(step_value, call.divisor)
       /\ index' = end
       /\ index - end >= 0
       /\ \A i \in end..(index - 1) : buffer'[i + 1] = 48
       /\ \A i \in index..(start - 1) : buffer'[i + 1] = buffer[i + 1]
       /\ \A i \in (end + 1)..start : char_to_digit(buffer'[i]) < call.radix
       /\ ParseDigits([i \in 1..call.step |-> char_to_digit(buffer'[end + i])],
                      call.radix, call.step) = step_value

\* C25: write_step_digits called with value < radix^step and index >= step
\* returns index - step, and the step bytes below index hold the digits
\* of value left-padded with '0'; the length of the pad is never negative.
C25_StepDigits ==
    [][(pc = "returned" /\ at \in {"low", "mid"}) => StepWritten]_vars

\* algorithm_u128 has padded the low chunk of 10^20 + 1: eighteen '0' and
\* the digit 1, and the index is 19 below the end of the buffer.
C25_Witness ==
    /\ pc = "write_digits"
    /\ at = "high"
    /\ call.fn = "algorithm_u128"
    /\ call.radix = 10
    /\ call.step = 19
    /\ call.value = Add(PowWord(10, 20), {0})
    /\ index = Len(buffer) - 19
    /\ buffer[Len(buffer)] = 49
    /\ \A i \in (index + 1)..(Len(buffer) - 1) : buffer[i] = 48

\* C29: in algorithm_u128, when a value needs three chunks, the quotient
\* of the second division is at least 1 and fits 64 bits, and the index
\* that the second write_step_digits returns is not 0: the guard
\* `index != 0` never skips the most significant chunk, and the call never
\* returns from the middle chunk.
C29_TopChunk ==
    /\ (pc = "returned" /\ at = "mid") =>
          /\ ~FitsU64(u128_divrem(call.value, call.divisor, call.step, call.radix).q)
          /\ high # {}
          /\ FitsU64(high)
          /\ Len(buffer) >= MaxDigits[128][call.radix]
          /\ write_step_digits(buffer, start, index, call.step).index # 0
    /\ (pc = "done" /\ call.fn = "algorithm_u128") => at \in {"algorithm", "high"}

\* The middle chunk of u128::MAX in radix 2 is written in a buffer of 128
\* bytes: the quotient left is 3 and the index after the padding is 2.
C29_Witness ==
    /\ pc = "returned"
    /\ at = "mid"
    /\ call.radix = 2
    /\ call.value = 0..127
    /\ Len(buffer) = 128
    /\ high = {0, 1}
    /\ write_step_digits(buffer, start, index, call.step).index = 2

---------------------------------------------------------------------------
(* Claims about fast_multiply.                                             *)

\* C26: fast_multiply(a, b) returns the fraction
\* floor((a.frac * b.frac + 2^63) / 2^64), the upper 64 bits of the
\* 128-bit product rounded half up, and the exponent a.exp + b.exp + 64;
\* no partial product and no 64-bit sum in it wraps around.
C26_FastMultiply ==
    ops = <<"fast_multiply">> =>
        /\ out # Panicked
        /\ ~fast_multiply_wraps(prev, addend)
        /\ fp.frac = Shr(Add(Mul(prev.frac, addend.frac), {63}), 64)
        /\ fp.exp = prev.exp + addend.exp + 64

\* 2^63 * (2^63 + 1): the product is 2^62 and a half in units of 2^64, a
\* tie that is rounded up.
C26_Witness ==
    /\ ops = <<"fast_multiply">>
    /\ prev = [frac |-> {63}, exp |-> -63]
    /\ addend = [frac |-> {0, 63}, exp |-> 11]
    /\ Mul(prev.frac, addend.frac) = {126, 63}
    /\ fp = [frac |-> {62, 0}, exp |-> 12]

---------------------------------------------------------------------------
(* Claims about the loops and the temporary buffer of ftoa_naive.          *)

\* C27: the digit loops of ftoa_naive end, and they end inside the
\* temporary buffer of SIZE bytes: every call reaches the selection of
\* the notation, fraction_cursor never exceeds SIZE, integer_cursor never
\* falls below 0, and every byte written has an index of 0 .. SIZE - 1.
C27_LoopsTerminate ==
    /\ [](/\ ftoa.integer_cursor \in 0..initial_position
          /\ ftoa.fraction_cursor \in 0..SIZE
          /\ DOMAIN ftoa.buffer \subseteq 0..(SIZE - 1))
    /\ (InLoops ~> ftoa.pc = "notation")

\* The loops have ended for 2^-1073 in radix 2 after 1073 fraction digits,
\* 1072 zeros and a one.
C27_Witness ==
    /\ ftoa.pc = "notation"
    /\ ftoa.value = F64_1E_323
    /\ ftoa.radix = 2
    /\ ftoa.fraction_cursor = initial_position + 1073
    /\ ftoa.integer_cursor = initial_position - 1
    /\ ReadByte(ftoa.buffer, initial_position + 1072) = 49
    /\ \A k \in initial_position..(initial_position + 1071) :
          ReadByte(ftoa.buffer, k) = 48

\* The window of the temporary buffer that the notation selected copies to
\* the output: lines 154-160 with the exponent taken, or lines 184-194.
window_start(f) ==
    IF is_scientific(f.value) THEN scientific_start(f, f.exponent)
    ELSE f.integer_cursor

window_end(f) ==
    IF is_scientific(f.value) THEN scientific_end(f, f.exponent)
    ELSE initial_position
             + Min(f.fraction_cursor - initial_position,
                   MAX_DIGIT_LENGTH - (initial_position - f.integer_cursor))

\* C28: when ftoa_naive reaches the selection of the notation,
\* integer_cursor < initial_position <= fraction_cursor and every byte of
\* [integer_cursor, fraction_cursor) has been written; the window copied to
\* the output, the scientific one that starts at
\* initial_position - exponent - 1 included, is not empty and holds no
\* byte that was not written.
C28_Window ==
    /\ ftoa.pc \in {"notation", "done", "panicked"} =>
          /\ ftoa.integer_cursor < initial_position
          /\ initial_position <= ftoa.fraction_cursor
          /\ \A k \in ftoa.integer_cursor..(ftoa.fraction_cursor - 1) :
                ReadByte(ftoa.buffer, k) # UNINIT
    /\ ftoa.pc \in {"done", "panicked"} =>
          /\ window_start(ftoa) < window_end(ftoa)
          /\ \A k \in window_start(ftoa)..(window_end(ftoa) - 1) :
                ReadByte(ftoa.buffer, k) # UNINIT

\* 5e-324 in radix 2 with the exponent -1074: the window starts at byte
\* 2173, which was never written, above its end at byte 1100.
C28_Witness ==
    /\ ftoa.pc = "panicked"
    /\ ftoa.value = F64_MIN_POSITIVE
    /\ ftoa.radix = 2
    /\ ftoa.exponent = -1074
    /\ ftoa.integer_cursor = initial_position - 1
    /\ ftoa.fraction_cursor = initial_position
    /\ window_start(ftoa) = initial_position + 1073
    /\ window_end(ftoa) = initial_position
    /\ ReadByte(ftoa.buffer, window_start(ftoa)) = UNINIT

---------------------------------------------------------------------------
(* float.rs: the amounts by which the 64-bit fraction is shifted.          *)

\* check_shl!(self, base, shift): the test shifts right by base - shift,
\* and shl! shifts left by shift when the test finds no bit.
check_shl_amounts(self, base, shift) ==
    {base - shift} \cup (IF Shr(self.frac, base - shift) = {} THEN {shift} ELSE {})

\* normalize: the six check_shl! steps, each on the result of the one before.
normalize_amounts(self) ==
    check_shl_amounts(self, 64, 32)
    \cup check_shl_amounts(check_shl(self, 64, 32), 64, 16)
    \cup check_shl_amounts(check_shl(check_shl(self, 64, 32), 64, 16), 64, 8)
    \cup check_shl_amounts(check_shl(check_shl(check_shl(self,
             64, 32), 64, 16), 64, 8), 64, 4)
    \cup check_shl_amounts(check_shl(check_shl(check_shl(check_shl(self,
             64, 32), 64, 16), 64, 8), 64, 4), 64, 2)
    \cup check_shl_amounts(normalize_short(self), 64, 1)

\* shift_to_float!: shr! by SHIFT, and by 1 when the roundup carries.
shift_to_float_amounts(self, shifted, shift) ==
    {shift} \cup (IF shifted.exp = self.exp + shift THEN {} ELSE {1})

\* avoid_underflow!: diff, when self.exp < denormal.
avoid_underflow_amounts(self, denormal) ==
    IF self.exp < denormal THEN {denormal - self.exp} ELSE {}

\* avoid_overflow!: diff + 1, when no bit of the mask is set.
avoid_overflow_amounts(self, max, masks) ==
    IF /\ self.exp >= max
       /\ self.exp - max < Cardinality(DOMAIN masks)
       /\ (self.frac \cap masks[self.exp - max]) = {}
    THEN {self.exp - max + 1}
    ELSE {}

\* normalize_to_f32 and normalize_to_f64 (as_f32 and as_f64).
normalize_to_f32_amounts(self) ==
    normalize_amounts(self)
    \cup shift_to_float_amounts(normalize(self), shift_to_f32(normalize(self)), 40)
    \cup avoid_underflow_amounts(shift_to_f32(normalize(self)), F32_DENORMAL_EXPONENT)
    \cup avoid_overflow_amounts(avoid_underflow(shift_to_f32(normalize(self)),
                                                F32_DENORMAL_EXPONENT),
                                F32_MAX_EXPONENT, F32_MASKS)
normalize_to_f64_amounts(self) ==
    normalize_amounts(self)
    \cup shift_to_float_amounts(normalize(self), shift_to_f64(normalize(self)), 11)
    \cup avoid_underflow_amounts(shift_to_f64(normalize(self)), F64_DENORMAL_EXPONENT)
    \cup avoid_overflow_amounts(avoid_underflow(shift_to_f64(normalize(self)),
                                                F64_DENORMAL_EXPONENT),
                                F64_MAX_EXPONENT, F64_MASKS)

\* add: the diff of conditional_add!, when the exponents differ and diff < 64.
add_amounts(self, b) ==
    IF self.exp = b.exp THEN {}
    ELSE IF Max(self.exp, b.exp) - Min(self.exp, b.exp) < 64
         THEN {Max(self.exp, b.exp) - Min(self.exp, b.exp)}
         ELSE {}

\* normalized_boundaries: self.frac << 1, upper.normalize(),
\* self.frac << l_shift and lower.frac <<= lower.exp - upper.exp.
normalized_boundaries_amounts(self) ==
    {1, l_shift(self)}
    \cup normalize_amounts([frac |-> Trunc(Add(Shl(self.frac, 1, 64), {0}), 64),
                            exp |-> self.exp - 1])
    \cup {boundaries_lower(self).exp - boundaries_upper(self).exp}

\* C30: no operation shifts the 64-bit fraction by 64 bits or more or by a
\* negative amount: the amounts used by normalize, by add (diff), by as_f32
\* and as_f64 (the fixed shift, the diff of avoid_underflow, the diff + 1 of
\* avoid_overflow) and by normalized_boundaries are all in 0..63.
C30_Shifts ==
    /\ (Len(ops) >= 2 /\ LastOp = "normalize")
          => \A n \in normalize_amounts(prev) : ~ShiftOverflows(n)
    /\ (Len(ops) = 2 /\ LastOp = "as_f32")
          => \A n \in normalize_to_f32_amounts(fp) : ~ShiftOverflows(n)
    /\ (Len(ops) = 2 /\ LastOp = "as_f64")
          => \A n \in normalize_to_f64_amounts(fp) : ~ShiftOverflows(n)
    /\ ops = <<"add">>
          => \A n \in add_amounts(prev, addend) : ~ShiftOverflows(n)
    /\ (Len(ops) = 2 /\ LastOp = "normalized_boundaries")
          => \A n \in normalized_boundaries_amounts(fp) : ~ShiftOverflows(n)

\* as_f32 has been given 2^-190 (frac 2^63, exp -253): normalized and
\* shifted to the 24 mantissa bits it is 2^23 at exponent -213, and
\* avoid_underflow shifts the fraction right by -149 - (-213) = 64.
C30_Witness ==
    /\ ops = <<"FloatType", "as_f32">>
    /\ arg = [word |-> {63}, exp |-> -253]
    /\ avoid_underflow_amounts(shift_to_f32(normalize(fp)), F32_DENORMAL_EXPONENT) = {64}
    /\ \/ overflow_checks /\ out = Panicked
       \/ ~overflow_checks /\ out.panic = FALSE
===========================================================================
